---- MODULE Spec2Model ----
(***************************************************************************)
(* A model of the reconciliation engine of the fund-data ETL pipeline      *)
(* (src/fund_etl_pipeline.py): the fund_data table, load_to_database,      *)
(* carry_forward_data, validate_against_lookback / _compare_dataframes     *)
(* and update_from_lookback (Spec); _compare_dataframes on one pair of    *)
(* values (SpecCompare); one region's file on its way through             *)
(* run_daily_etl (SpecDaily); the scheduler's lock file and entry points  *)
(* (src/fund_etl_scheduler.py, SpecLock); the API's single ETL slot       *)
(* (src/fund_etl_api.py, SpecApi); transform_data on one frame             *)
(* (SpecTransform); the lookback validation pass over both regions         *)
(* (SpecRun); and the workflows table behind DatabaseWorkflowTracker       *)
(* (src/workflow_db_tracker.py, SpecTracker).                              *)
(*                                                                         *)
(* Class FundDataETL defines update_from_lookback twice (lines 942 and     *)
(* 1323).  Python binds the name to the later definition, so the method    *)
(* that run_daily_etl, ETLScheduler.run_validation and the tests call is   *)
(* the one at lines 1323-1455; that is the one modelled as the action.     *)
(*                                                                         *)
(* Encoding.  A cell of a dataframe or of the table is a record            *)
(* [k, n, s]: Num(n) a number, Null (NaN / None / SQL NULL) or Text(s), s  *)
(* a sequence of one-character strings.  Numbers are counted in units of   *)
(* half the comparison epsilon (1e-10), so Epsilon is 2 units.  A date is  *)
(* a day number whose remainder modulo 7 is Python's weekday() (0 Monday,  *)
(* 4 Friday).                                                              *)
(***************************************************************************)
EXTENDS Integers, Sequences, FiniteSets, TLC

VARIABLES fund_data, lookback_df, validation_results, compared_dates,
          update_result, before, last, loads, rounds,
          change_threshold, load_args,
          raw_df, daily_df, daily_pc, daily_date, daily_region,
          lock_file_path, flocks, inodes, sched,
          running_etl_workflows, api,
          validation_run,
          workflows, tracker,
          configured_fields,
          calendar,
          retry,
          backfill,
          chrome

vars == <<fund_data, lookback_df, validation_results, compared_dates,
          update_result, before, last, loads, rounds,
          change_threshold, load_args,
          raw_df, daily_df, daily_pc, daily_date, daily_region,
          lock_file_path, flocks, inodes, sched,
          running_etl_workflows, api,
          validation_run,
          workflows, tracker,
          configured_fields,
          calendar,
          retry,
          backfill,
          chrome>>

(* The arguments and results of the reconciliation calls *)
recon_vars == <<lookback_df, validation_results, compared_dates, update_result,
                before, last, loads, rounds, change_threshold, load_args>>

(* load_args when the last call was neither a load_to_database nor a      *)
(* carry_forward_data: otherwise the arguments of that call and the       *)
(* etl_log row it wrote ("" when it wrote none).                          *)
NoLoad == [df |-> <<>>, region |-> "", file_date |-> 0,
           status |-> "", records_processed |-> 0]

(* One region's file on its way through run_daily_etl *)
daily_vars == <<raw_df, daily_df, daily_pc, daily_date, daily_region>>

(* The scheduler's lock file and the scheduler processes:                  *)
(*   lock_file_path  the inode linked at the lock file's path, 0 if none  *)
(*   flocks          for every inode the process holding flock on it, or 0 *)
(*   inodes          the number of lock files created so far              *)
(*   sched           for every process its position, its open lock file   *)
(*                   (self.lock_file, 0 for None), the entry point it was *)
(*                   started with and the number of times it was started  *)
lock_vars == <<lock_file_path, flocks, inodes, sched>>

(* The scheduler processes *)
Procs == {1, 2}

(* The most lock files created and the most starts of one process *)
MaxInodes == 2

MaxRuns == 2

(* No scheduler process has been started *)
LockIdle ==
    /\ lock_file_path = 0
    /\ flocks = [i \in 1..MaxInodes |-> 0]
    /\ inodes = 0
    /\ sched = [p \in Procs |-> [pc |-> "exit", lock_file |-> 0, entry |-> "", runs |-> 0]]

(* No file is being processed *)
DailyIdle ==
    /\ raw_df = <<>>
    /\ daily_df = <<>>
    /\ daily_pc = "idle"
    /\ daily_date = 0
    /\ daily_region = ""

(* The store and everything the pipeline holds *)
store_vars == <<fund_data, recon_vars, daily_vars>>

(* The API process: the set of reserved workflow ids and, for every start *)
(* request, its position in the handler, the status it was answered with  *)
(* (0 while unanswered), the state of its worker thread, whether the set  *)
(* was empty when it arrived and whether an accepted workflow was         *)
(* unfinished when can_start_etl ran for it.                              *)
api_vars == <<running_etl_workflows, api>>

(* The most start requests *)
MaxRequests == 3

Requests == 1..MaxRequests

(* No request has arrived *)
ApiIdle ==
    /\ running_etl_workflows = {}
    /\ api = [r \in Requests |-> [pc |-> "none", status |-> 0, worker |-> "none",
                                   at_idle |-> FALSE, busy |-> FALSE]]

(* One pass of the lookback validation over the regions (the second loop *)
(* of run_daily_etl, the loop of ETLScheduler.run_validation):            *)
(*   pc       "idle", "loop" or "returned"                                *)
(*   entry    the method running the loop                                 *)
(*   mode     the update mode handed to update_from_lookback              *)
(*   i        the position of the loop in RunRegions                      *)
(*   files    for every region the lookback file the download has for it  *)
(*   faults   for every region what goes wrong while it is reconciled     *)
(*   start    the table when the pass started                             *)
(*   summary  validation_alerts / validation_summary, one entry a region  *)
run_vars == <<validation_run>>

RunIdle ==
    validation_run = [pc |-> "idle", entry |-> "", mode |-> "", i |-> 0, files |-> <<>>,
           faults |-> <<>>, start |-> {}, summary |-> <<>>]

(* The workflows table and one DatabaseWorkflowTracker shared by threads: *)
(*   workflows  the row of one workflow id: whether it exists, its status, *)
(*              started_at and completed_at (NULL or the time written)    *)
(*              and the messages of its output entries                    *)
(*   tracker    lock: the thread holding self.lock (0 for none);          *)
(*              threads: for every thread its position in update_workflow,*)
(*              the arguments of the call, the output it read and the     *)
(*              number of calls it made; given: the output lines handed   *)
(*              to the calls that reached the row, in the order of their  *)
(*              commits; contended: whether a call had to wait for the    *)
(*              lock                                                      *)
(* None and '' are both "": update_workflow only tests its arguments for  *)
(* truth.                                                                 *)
tracker_vars == <<workflows, tracker>>

(* SQL NULL / None in a timestamp column *)
NULL == 0

(* The most threads that share the tracker *)
MaxThreads == 2

(* The most update_workflow calls of one thread *)
MaxCalls == 1

Threads == 1..MaxThreads

NoRow == [exists |-> FALSE, status |-> "", started_at |-> NULL,
          completed_at |-> NULL, output |-> <<>>]

IdleThread == [pc |-> "idle", output_line |-> "", status |-> "",
               current_output |-> <<>>, calls |-> 0]

TrackerIdle ==
    /\ workflows = NoRow
    /\ tracker = [lock |-> 0, threads |-> [t \in Threads |-> IdleThread],
                  given |-> <<>>, contended |-> FALSE]

(* config['validation']['critical_fields'] as the deployment sets it; the *)
(* default while no configuration names the fields.                       *)
config_vars == <<configured_fields>>

ConfigIdle == configured_fields = <<"share_class_assets">>

(* One call of get_prior_business_day: its position, its argument, the    *)
(* local prior_date and the dates self.us_holidays holds.                 *)
calendar_vars == <<calendar>>

CalendarIdle ==
    calendar = [pc |-> "idle", date |-> 0, prior_date |-> 0, us_holidays |-> {}]

(* run_with_retry: its position, the configured max_retries, the loop     *)
(* index, the result of every run_daily_etl call so far, the alerts sent  *)
(* and the value returned.                                                *)
retry_vars == <<retry>>

RetryIdle ==
    retry = [pc |-> "idle", max_retries |-> 0, attempt |-> 0, calls |-> <<>>,
             error_alerts |-> 0, update_alerts |-> 0, result |-> FALSE]

(* backfill_missing_dates: its position, the holiday calendar, the        *)
(* dates find_missing_dates reported for each region, the dates still to  *)
(* be run, and the date and result of the run_with_retry call just made.  *)
backfill_vars == <<backfill>>

BackfillIdle ==
    backfill = [pc |-> "idle", us_holidays |-> {}, missing_dates |-> <<>>,
                dates_to_backfill |-> <<>>, date |-> 0, completed |-> FALSE]

(* The Chrome driver lock of the downloaders:                             *)
(*   path     the inode linked at CHROME_LOCK_FILE, 0 if none             *)
(*   flocks   for every inode the downloader holding flock on it, or 0    *)
(*   content  for every inode the pid written in it, 0 when empty         *)
(*   made     the number of inodes created so far                         *)
(*   stale    whether the file at the path was last modified more than    *)
(*            five minutes ago                                            *)
(*   procs    for every downloader process its position and the inode of  *)
(*            its open lock file                                          *)
chrome_vars == <<chrome>>

(* The most downloader processes *)
MaxDownloaders == 2

Downloaders == 1..MaxDownloaders

ChromeIdle ==
    chrome = [path |-> 0, flocks |-> [i \in 1..MaxInodes |-> 0],
              content |-> [i \in 1..MaxInodes |-> 0], made |-> 0, stale |-> FALSE,
              procs |-> [p \in Downloaders |-> [pc |-> "idle", lock_file |-> 0]]]

----------------------------------------------------------------------------
(* Cells *)

Num(n) == [k |-> "num", n |-> n, s |-> <<>>]

Null == [k |-> "null", n |-> 0, s |-> <<>>]

Text(s) == [k |-> "text", n |-> 0, s |-> s]

(* pd.isna / pd.notna on a scalar *)
isna(v) == v.k = "null"

notna(v) == ~isna(v)

Abs(x) == IF x < 0 THEN -x ELSE x

DigitChars == {"0", "1", "2", "3", "4", "5", "6", "7", "8", "9"}

DigitVal(c) ==
    CASE c = "0" -> 0 [] c = "1" -> 1 [] c = "2" -> 2 [] c = "3" -> 3
      [] c = "4" -> 4 [] c = "5" -> 5 [] c = "6" -> 6 [] c = "7" -> 7
      [] c = "8" -> 8 [] c = "9" -> 9

RECURSIVE DigitsValue(_)
DigitsValue(s) ==
    IF s = <<>> THEN 0
    ELSE 10 * DigitsValue(SubSeq(s, 1, Len(s) - 1)) + DigitVal(s[Len(s)])

(* Whether Python's float() / pandas' to_numeric accept the text.  Only   *)
(* unsigned digit strings occur among the texts of this model.            *)
IsNumericText(s) == s # <<>> /\ \A i \in 1..Len(s) : s[i] \in DigitChars

(* pd.to_numeric(value, errors='coerce') on a scalar *)
to_numeric(v) ==
    CASE v.k = "num" -> v
      [] v.k = "null" -> Null
      [] v.k = "text" -> IF IsNumericText(v.s) THEN Num(DigitsValue(v.s)) ELSE Null

(* What SQLite keeps when a value is bound to a REAL column: NaN and None *)
(* become NULL, a number stays, a text that is a well-formed number is    *)
(* converted, any other text is stored as text.                           *)
RealAffinity(v) ==
    IF v.k = "text" /\ IsNumericText(v.s) THEN Num(DigitsValue(v.s)) ELSE v

----------------------------------------------------------------------------
(* Schema *)

Regions == {"AMRS", "EMEA"}

TableColumns == {"date", "region", "fund_code", "fund_name",
                 "share_class_assets", "wam"}

RealColumns == {"share_class_assets", "wam"}

Key(r) == <<r["date"], r["region"], r["fund_code"]>>

weekday(d) == d % 7

AddCol(r, c, v) == [x \in DOMAIN r \cup {c} |-> IF x = c THEN v ELSE r[x]]

DropCol(r, c) == [x \in DOMAIN r \ {c} |-> r[x]]

Range(s) == {s[i] : i \in 1..Len(s)}

(* The columns of a dataframe (every row of a dataframe has the same). *)
Columns(df) == IF df = <<>> THEN {} ELSE DOMAIN df[1]

----------------------------------------------------------------------------
(* transform_data *)

column_mapping ==
    ("Fund Code" :> "fund_code") @@ ("Fund Name" :> "fund_name") @@
    ("Share Class Assets (dly/$mils)" :> "share_class_assets") @@
    ("WAM (dly)" :> "wam")

text_columns == {"fund_name"}

numeric_columns == {"share_class_assets", "wam"}

RenameColumns(r, m) ==
    LET new(c) == IF c \in DOMAIN m THEN m[c] ELSE c
    IN  [d \in {new(c) : c \in DOMAIN r} |->
            r[CHOOSE c \in DOMAIN r : new(c) = d]]

RECURSIVE StripLeft(_)
StripLeft(s) ==
    IF s # <<>> /\ Head(s) = " " THEN StripLeft(Tail(s)) ELSE s

RECURSIVE StripRight(_)
StripRight(s) ==
    IF s # <<>> /\ s[Len(s)] = " " THEN StripRight(SubSeq(s, 1, Len(s) - 1)) ELSE s

(* fillna('') followed by  str(x).strip() if x else ''  *)
CleanText(v) ==
    CASE v.k = "null" -> Text(<<>>)
      [] v.k = "text" -> Text(StripLeft(StripRight(v.s)))
      [] OTHER -> v

RemoveCommas(s) == SelectSeq(s, LAMBDA c : c # ",")

NullTokens == {<<"-">>, <<>>, <<"N", "/", "A">>, <<"n", "a", "n">>}

(* astype(str), str.replace(',', ''), replace([...], nan), to_numeric(coerce) *)
CleanNumeric(v) ==
    CASE v.k = "num" -> v
      [] v.k = "null" -> Null
      [] v.k = "text" ->
            IF RemoveCommas(v.s) \in NullTokens THEN Null
            ELSE to_numeric(Text(RemoveCommas(v.s)))

TransformRow(r, region, date) ==
    LET r1 == AddCol(AddCol(r, "region", region), "date", date)
        r2 == IF "Date" \in DOMAIN r1
              THEN DropCol(AddCol(r1, "file_date", r1["Date"]), "Date")
              ELSE r1
        r3 == RenameColumns(r2, column_mapping)
    IN  [c \in DOMAIN r3 |->
            IF c \in text_columns THEN CleanText(r3[c])
            ELSE IF c \in numeric_columns THEN CleanNumeric(r3[c])
            ELSE r3[c]]

transform_data(df, region, date) ==
    LET kept == IF "Fund Code" \in Columns(df)
                THEN SelectSeq(df, LAMBDA r : r["Fund Code"] # "#MULTIVALUE")
                ELSE df
    IN  [i \in 1..Len(kept) |-> TransformRow(kept[i], region, date)]

----------------------------------------------------------------------------
(* The fund_data table and DataFrame.to_sql(if_exists='append') *)

(* The row the table keeps for an inserted dataframe row: a column the    *)
(* frame lacks is NULL, a REAL column applies its affinity.               *)
StoredRow(r) ==
    [c \in TableColumns |->
        IF c \notin DOMAIN r THEN Null
        ELSE IF c \in RealColumns THEN RealAffinity(r[c])
        ELSE r[c]]

RECURSIVE InsertRows(_, _)
(* Inserts the rows in order; a row whose primary key is already present  *)
(* raises sqlite3.IntegrityError.                                         *)
InsertRows(table, rows) ==
    IF rows = <<>> THEN [err |-> "none", table |-> table]
    ELSE LET insert(r) ==
                IF \E t \in table : Key(t) = Key(r)
                THEN [err |-> "IntegrityError", table |-> table]
                ELSE InsertRows(table \cup {r}, Tail(rows))
         IN  insert(StoredRow(Head(rows)))

(* to_sql on an open connection.  A frame with a column the table lacks  *)
(* raises sqlite3.OperationalError.  pandas runs the insert in            *)
(* run_transaction: on an exception it calls con.rollback(), which undoes *)
(* every statement of the connection's open transaction, and on success   *)
(* it commits; `committed` is the table as last committed, `pending` the  *)
(* table as the open transaction sees it.                                 *)
to_sql(committed, pending, rows) ==
    IF ~(Columns(rows) \subseteq TableColumns)
    THEN [err |-> "OperationalError", table |-> committed]
    ELSE LET finish(ins) == IF ins.err = "none" THEN ins
                            ELSE [err |-> ins.err, table |-> committed]
         IN  finish(InsertRows(pending, rows))

DeleteDateRegion(table, dates, region) ==
    {t \in table : ~(t["date"] \in dates /\ t["region"] = region)}

----------------------------------------------------------------------------
(* load_to_database *)

(* The outcome of load_to_database(df, region, file_date) on its own      *)
(* connection: the table afterwards and whether the call raised.          *)
LoadOutcome(table, df, region, file_date) ==
    LET gone(first_date) == IF weekday(first_date) = 4
                            THEN {first_date, first_date + 1, first_date + 2}
                            ELSE {first_date}
        finish(ins) ==
            CASE ins.err = "none" -> [raised |-> FALSE, table |-> ins.table]
              [] ins.err = "IntegrityError" -> [raised |-> FALSE, table |-> ins.table]
              [] OTHER -> [raised |-> TRUE, table |-> table]
        load(df_load) ==
            IF df_load = <<>>
            THEN [raised |-> TRUE, table |-> table]      \* df_load['date'].iloc[0]
            ELSE finish(to_sql(table,
                               DeleteDateRegion(table, gone(df_load[1]["date"]), region),
                               df_load))
    IN  load(transform_data(df, region, file_date))

(* carry_forward_data without the DELETE of the target date's rows *)
CarryForwardKeeping(table, date, region) ==
    LET earlier == {t["date"] : t \in {u \in table : u["region"] = region /\ u["date"] < date}}
    IN  IF earlier = {} THEN table
        ELSE LET source_date == CHOOSE d \in earlier : \A e \in earlier : e <= d
             IN  table \cup {[t EXCEPT !["date"] = date] :
                               t \in {u \in table : u["region"] = region /\ u["date"] = source_date}}

(* The etl_log row carry_forward_data writes: status CARRIED_FORWARD with *)
(* cursor.rowcount of the INSERT ... SELECT, or none when the region has  *)
(* no earlier date.                                                       *)
CarryForwardLog(table, date, region) ==
    LET earlier == {t["date"] : t \in {u \in table : u["region"] = region /\ u["date"] < date}}
    IN  IF earlier = {}
        THEN [df |-> <<>>, region |-> region, file_date |-> date,
              status |-> "", records_processed |-> 0]
        ELSE LET source_date == CHOOSE d \in earlier : \A e \in earlier : e <= d
             IN  [df |-> <<>>, region |-> region, file_date |-> date,
                  status |-> "CARRIED_FORWARD",
                  records_processed |->
                      Cardinality({u \in table : u["region"] = region /\ u["date"] = source_date})]

(* carry_forward_data(date, region) *)
CarryForwardOutcome(table, date, region) ==
    LET earlier == {t["date"] : t \in {u \in table : u["region"] = region /\ u["date"] < date}}
    IN  IF earlier = {} THEN table
        ELSE LET source_date == CHOOSE d \in earlier : \A e \in earlier : e <= d
                 copies == {[t EXCEPT !["date"] = date] :
                              t \in {u \in table : u["region"] = region /\ u["date"] = source_date}}
             IN  DeleteDateRegion(table, {date}, region) \cup copies

----------------------------------------------------------------------------
(* _compare_dataframes *)

(* change_threshold_percent, the default of validate_against_lookback *)
ThresholdPct == 5

(* epsilon = 1e-10, in the units of Num *)
Epsilon == 2

critical_fields == <<"share_class_assets">>

column_mapping_reverse ==
    ("fund_code" :> "Fund Code") @@
    ("share_class_assets" :> "Share Class Assets (dly/$mils)")

(* The lookback value as the comparison converts it: None for NaN, '-'    *)
(* and '', otherwise pd.to_numeric(errors='coerce').                      *)
CompareLookbackValue(v) ==
    IF isna(v) \/ v = Text(<<"-">>) \/ v = Text(<<>>) THEN Null ELSE to_numeric(v)

(* The value _update_single_record binds for a numeric column: to_numeric *)
(* (errors='coerce') unless the cell is NaN or '-', None for '-'.         *)
UpdateSingleRecordValue(v) ==
    IF ~isna(v) /\ v # Text(<<"-">>) THEN to_numeric(v)
    ELSE IF v = Text(<<"-">>) THEN Null
    ELSE v

(* float(db_value) raises ValueError on a text that is not a number. *)
FloatRaises(v) == v.k = "text" /\ ~IsNumericText(v.s)

(* Whether one monitored field is flagged, for a stored value float()     *)
(* accepts.  pct_change = |(b - a) / a * 100| > threshold is compared     *)
(* without the division.                                                  *)
(* The comparison without the branch for a stored value of zero *)
FieldChangedZeroSkipped(db_raw, lookback_raw, threshold_pct) ==
    LET differs(a, b) ==
            IF isna(a) /\ isna(b) THEN FALSE
            ELSE IF isna(a) # isna(b) THEN TRUE
            ELSE IF Abs(a.n - b.n) < Epsilon THEN FALSE
            ELSE IF Abs(a.n) > Epsilon
                 THEN Abs(b.n - a.n) * 100 > threshold_pct * Abs(a.n)
            ELSE FALSE
    IN  differs(to_numeric(db_raw), CompareLookbackValue(lookback_raw))

(* The strict comparison replaced by an inclusive one *)
FieldChangedInclusive(db_raw, lookback_raw, threshold_pct) ==
    LET differs(a, b) ==
            IF isna(a) /\ isna(b) THEN FALSE
            ELSE IF isna(a) # isna(b) THEN TRUE
            ELSE IF Abs(a.n - b.n) < Epsilon THEN FALSE
            ELSE IF Abs(a.n) > Epsilon
                 THEN Abs(b.n - a.n) * 100 >= threshold_pct * Abs(a.n)
            ELSE Abs(b.n) > Epsilon
    IN  differs(to_numeric(db_raw), CompareLookbackValue(lookback_raw))

FieldChanged(db_raw, lookback_raw, threshold_pct) ==
    LET differs(a, b) ==
            IF isna(a) /\ isna(b) THEN FALSE
            ELSE IF isna(a) # isna(b) THEN TRUE
            ELSE IF Abs(a.n - b.n) < Epsilon THEN FALSE
            ELSE IF Abs(a.n) > Epsilon
                 THEN Abs(b.n - a.n) * 100 > threshold_pct * Abs(a.n)
            ELSE Abs(b.n) > Epsilon
    IN  differs(to_numeric(db_raw), CompareLookbackValue(lookback_raw))

(* The fields of critical_fields that take part in the comparison of a row *)
ComparedFields(lookback_row, fields) ==
    SelectSeq(fields, LAMBDA f : f \in DOMAIN column_mapping_reverse
                                 /\ column_mapping_reverse[f] \in DOMAIN lookback_row)

(* The pct_change key of a changed_fields entry: present only when the   *)
(* percentage branch flagged the field, and then |(b - a) / a * 100| kept *)
(* as the fraction num / den.                                             *)
PctChange(a, b) ==
    IF notna(a) /\ notna(b) /\ Abs(a.n) > Epsilon
    THEN [present |-> TRUE, num |-> Abs(b.n - a.n) * 100, den |-> Abs(a.n)]
    ELSE [present |-> FALSE, num |-> 0, den |-> 1]

ChangedFields(db_record, lookback_row, fields, threshold_pct) ==
    LET entry(f, a, b) ==
            [field |-> f, db_value |-> a, lookback_value |-> b,
             pct_change |-> PctChange(a, b)]
        describe(flagged) ==
            [i \in 1..Len(flagged) |->
                entry(flagged[i],
                      to_numeric(db_record[flagged[i]]),
                      CompareLookbackValue(
                          lookback_row[column_mapping_reverse[flagged[i]]]))]
    IN  describe(SelectSeq(ComparedFields(lookback_row, fields), LAMBDA f :
                    FieldChanged(db_record[f], lookback_row[column_mapping_reverse[f]],
                                 threshold_pct)))

(* The comparison of one lookback row: whether it raised, and the change  *)
(* descriptors it appended (none or one).                                 *)
CompareRow(db_df, lookback_row, fields, threshold_pct) ==
    LET fund_code == lookback_row["Fund Code"]
        db_record == {t \in db_df : t["fund_code"] = fund_code}
    IN  IF db_record = {}
        THEN [raised |-> FALSE,
              changes |-> << [type |-> "new_fund", fund_code |-> fund_code,
                              date |-> lookback_row["Date"], changed_fields |-> <<>>,
                              lookback_row |-> lookback_row] >>]
        ELSE LET rec == CHOOSE t \in db_record : TRUE
                 compared == ComparedFields(lookback_row, fields)
                 describe(changed) ==
                     [raised |-> FALSE,
                      changes |-> IF changed = <<>> THEN <<>>
                                  ELSE << [type |-> "value_change",
                                           fund_code |-> fund_code,
                                           date |-> rec["date"],
                                           changed_fields |-> changed,
                                           lookback_row |-> lookback_row] >>]
             IN  IF \E i \in 1..Len(compared) : FloatRaises(rec[compared[i]])
                 THEN [raised |-> TRUE, changes |-> <<>>]
                 ELSE describe(ChangedFields(rec, lookback_row, fields, threshold_pct))

RECURSIVE _compare_dataframes(_, _, _, _)
_compare_dataframes(db_df, lookback_rows, fields, threshold_pct) ==
    IF lookback_rows = <<>> THEN [raised |-> FALSE, changes |-> <<>>]
    ELSE LET extend(one, rest) ==
                IF rest.raised THEN rest
                ELSE [raised |-> FALSE, changes |-> one.changes \o rest.changes]
             continue(one) ==
                IF one.raised THEN [raised |-> TRUE, changes |-> <<>>]
                ELSE extend(one, _compare_dataframes(db_df, Tail(lookback_rows),
                                                     fields, threshold_pct))
         IN  continue(CompareRow(db_df, Head(lookback_rows), fields, threshold_pct))

----------------------------------------------------------------------------
(* validate_against_lookback *)

RECURSIVE Unique(_)
(* The distinct elements of a sequence, in order of first appearance *)
Unique(s) ==
    IF s = <<>> THEN <<>>
    ELSE LET u == Unique(SubSeq(s, 1, Len(s) - 1))
         IN  IF s[Len(s)] \in Range(u) THEN u ELSE Append(u, s[Len(s)])

LookbackDatesOf(df) == Unique([i \in 1..Len(df) |-> df[i]["Date"]])

RowsOfDate(df, date) == SelectSeq(df, LAMBDA r : r["Date"] = date)

StoredRows(table, region, date) ==
    {t \in table : t["region"] = region /\ t["date"] = date}

(* The counter stepped once for a date, however many records changed *)
CountChangesPerDate(count, changes) == count + 1

(* summary['changed_records_count'] += len(changes) *)
CountChanges(count, changes) == count + Len(changes)

RECURSIVE CheckMissingDates(_, _, _, _)
(* The first loop of validate_against_lookback: a date without a stored   *)
(* row of the region is appended to missing_dates, the counter stepped    *)
(* and requires_update set.                                               *)
CheckMissingDates(table, region, dates, acc) ==
    IF dates = <<>> THEN acc
    ELSE CheckMissingDates(table, region, Tail(dates),
            IF StoredRows(table, region, Head(dates)) = {}
            THEN [missing |-> Append(acc.missing, Head(dates)),
                  count |-> acc.count + 1,
                  requires |-> TRUE]
            ELSE acc)

RECURSIVE CompareDates(_, _, _, _, _)
(* The second loop of validate_against_lookback over the dates that are   *)
(* not missing.  An exception of the comparison leaves the loop: the      *)
(* descriptors of the dates compared before it are kept.  `compared` is   *)
(* the set of dates whose comparison completed.                           *)
CompareDates(table, region, df, dates, acc) ==
    IF dates = <<>> THEN acc
    ELSE LET date == Head(dates)
             continue(res) ==
                IF res.raised THEN [acc EXCEPT !.raised = TRUE]
                ELSE CompareDates(table, region, df, Tail(dates),
                                  [changes |-> acc.changes \o res.changes,
                                   compared |-> acc.compared \cup {date},
                                   raised |-> FALSE,
                                   count |-> IF res.changes # <<>>
                                             THEN CountChanges(acc.count, res.changes)
                                             ELSE acc.count,
                                   requires |-> acc.requires \/ res.changes # <<>>])
         IN  continue(_compare_dataframes(StoredRows(table, region, date),
                                          RowsOfDate(df, date),
                                          critical_fields, change_threshold))

ValidationOutcome(table, region, df) ==
    LET lookback_dates == LookbackDatesOf(df)
        plan(mis, cmp) ==
            [results |->
                [missing_dates |-> mis.missing,
                 changed_records |-> cmp.changes,
                 summary |-> [total_dates_checked |-> Len(lookback_dates),
                              missing_dates_count |-> mis.count,
                              changed_records_count |-> cmp.count,
                              requires_update |-> cmp.requires]],
             compared |-> cmp.compared,
             raised |-> cmp.raised]
        compare(mis) ==
            plan(mis,
                 CompareDates(table, region, df,
                              SelectSeq(lookback_dates,
                                        LAMBDA d : d \notin Range(mis.missing)),
                              [changes |-> <<>>, compared |-> {}, raised |-> FALSE,
                               count |-> 0, requires |-> mis.requires]))
    IN  compare(CheckMissingDates(table, region, lookback_dates,
                                  [missing |-> <<>>, count |-> 0, requires |-> FALSE]))

EmptyResults ==
    [missing_dates |-> <<>>, changed_records |-> <<>>,
     summary |-> [total_dates_checked |-> 0, missing_dates_count |-> 0,
                  changed_records_count |-> 0, requires_update |-> FALSE]]

----------------------------------------------------------------------------
(* update_from_lookback (the definition in force, lines 1323-1455) *)

selective_column_mapping ==
    ("Share Class Assets (dly/$mils)" :> "share_class_assets") @@
    ("WAM (dly)" :> "wam")

full_column_mapping ==
    ("Date" :> "date") @@ ("Fund Code" :> "fund_code") @@
    ("Fund Name" :> "fund_name") @@
    ("Share Class Assets (dly/$mils)" :> "share_class_assets") @@
    ("WAM (dly)" :> "wam")

(* lb_record: the lookback rows of a change descriptor's date and fund *)
LbRecord(df, record) ==
    SelectSeq(df, LAMBDA r : r["Date"] = record.date /\ r["Fund Code"] = record.fund_code)

(* The UPDATE statements of the selective loop, in order: one for every   *)
(* descriptor that has a lookback row, built from the first such row.     *)
SelectiveUpdates(df, results) ==
    LET with_row == SelectSeq(results.changed_records,
                              LAMBDA c : LbRecord(df, c) # <<>>)
    IN  [i \in 1..Len(with_row) |->
            [date |-> with_row[i].date, fund_code |-> with_row[i].fund_code,
             excel_data |-> LbRecord(df, with_row[i])[1]]]

(* The UPDATE with fund_code left out of its WHERE clause *)
ExecuteUpdateWholeDate(table, region, u) ==
    LET cols == {c \in DOMAIN selective_column_mapping : c \in DOMAIN u.excel_data}
        set(t) == [x \in DOMAIN t |->
                     IF \E c \in cols : selective_column_mapping[c] = x
                     THEN RealAffinity(u.excel_data[
                              CHOOSE c \in cols : selective_column_mapping[c] = x])
                     ELSE t[x]]
    IN  {IF t["date"] = u.date /\ t["region"] = region /\ cols # {} THEN set(t) ELSE t :
            t \in table}

(* The UPDATE binding the values as transform_data would clean them *)
ExecuteUpdateCleaned(table, region, u) ==
    LET cols == {c \in DOMAIN selective_column_mapping : c \in DOMAIN u.excel_data}
        set(t) == [x \in DOMAIN t |->
                     IF \E c \in cols : selective_column_mapping[c] = x
                     THEN CleanNumeric(u.excel_data[
                              CHOOSE c \in cols : selective_column_mapping[c] = x])
                     ELSE t[x]]
    IN  {IF Key(t) = <<u.date, region, u.fund_code>> /\ cols # {} THEN set(t) ELSE t :
            t \in table}

(* UPDATE fund_data SET <mapped columns> WHERE region, date, fund_code *)
ExecuteUpdate(table, region, u) ==
    LET cols == {c \in DOMAIN selective_column_mapping : c \in DOMAIN u.excel_data}
        set(t) == [x \in DOMAIN t |->
                     IF \E c \in cols : selective_column_mapping[c] = x
                     THEN RealAffinity(u.excel_data[
                              CHOOSE c \in cols : selective_column_mapping[c] = x])
                     ELSE t[x]]
    IN  {IF Key(t) = <<u.date, region, u.fund_code>> /\ cols # {} THEN set(t) ELSE t :
            t \in table}

RECURSIVE ExecuteUpdates(_, _, _)
ExecuteUpdates(table, region, updates) ==
    IF updates = <<>> THEN table
    ELSE ExecuteUpdates(ExecuteUpdate(table, region, Head(updates)), region, Tail(updates))

(* A connection whose pending statements take effect although it was     *)
(* never committed.                                                       *)
AbandonConnectionKeepsWrites(committed, pending) == pending

(* What the table holds once a connection with an open transaction is    *)
(* dropped without commit (the except branch returns None; the local      *)
(* connection is released and SQLite rolls the transaction back).         *)
AbandonConnection(committed, pending) == committed

ReturnedNone == [returned |-> "None", records_updated |-> 0, mode |-> ""]

ReturnedDict(n, mode) == [returned |-> "dict", records_updated |-> n, mode |-> mode]

NotCalled == [returned |-> "unset", records_updated |-> 0, mode |-> ""]

(* Selective mode.  fault = 0: no statement fails; fault = i: the i-th    *)
(* statement raises (the UPDATEs in order, then the commit).              *)
SelectiveOutcome(table, region, df, results, fault) ==
    LET committed(updates, pending) ==
            [table |-> pending,
             result |-> ReturnedDict(Len(updates), "selective"),
             wrote |-> pending # table, raised |-> FALSE]
        failed(pending) ==
            [table |-> AbandonConnection(table, pending),
             result |-> ReturnedNone,
             wrote |-> pending # table, raised |-> TRUE]
        run(updates) ==
            IF fault = 0
            THEN committed(updates, ExecuteUpdates(table, region, updates))
            ELSE failed(ExecuteUpdates(table, region, SubSeq(updates, 1, fault - 1)))
    IN  run(SelectiveUpdates(df, results))

SelectiveStatements(df, results) == Len(SelectiveUpdates(df, results)) + 1

(* insert_df of full mode *)
FullInsertRows(df, region) ==
    [i \in 1..Len(df) |->
        AddCol(RenameColumns(df[i], full_column_mapping), "region", region)]

(* Full mode.  fault = 0: no statement fails by itself; fault = i: the    *)
(* i-th statement raises (one DELETE per lookback date, then to_sql).     *)
(* to_sql may also raise by itself (a key collision).                     *)
FullOutcome(table, region, df, fault) ==
    LET dates == LookbackDatesOf(df)
        deleted(n) == DeleteDateRegion(table, {dates[i] : i \in 1..n}, region)
        failed(pending) ==
            [table |-> AbandonConnection(table, pending),
             result |-> ReturnedNone, wrote |-> pending # table, raised |-> TRUE]
        insert(pending, ins) ==
            IF fault = Len(dates) + 1 \/ ins.err # "none"
            THEN [table |-> table,
                  result |-> ReturnedNone, wrote |-> pending # table, raised |-> TRUE]
            ELSE [table |-> ins.table,
                  result |-> ReturnedDict(Len(df), "full"),
                  wrote |-> ins.table # table, raised |-> FALSE]
    IN  IF fault \in 1..Len(dates)
        THEN failed(deleted(fault - 1))
        ELSE insert(deleted(Len(dates)),
                    to_sql(table, deleted(Len(dates)), FullInsertRows(df, region)))

FullStatements(df) == Len(LookbackDatesOf(df)) + 1

UpdateOutcome(table, region, df, results, update_mode, fault) ==
    IF update_mode = "selective"
    THEN SelectiveOutcome(table, region, df, results, fault)
    ELSE FullOutcome(table, region, df, fault)

----------------------------------------------------------------------------
(* Inputs *)

(* The longest dataframe (rows) given to an operation *)
MaxRows == 2

(* The number of loads and carry-forwards before reconciliation starts *)
MaxLoads == 2

(* The number of update_from_lookback calls on one lookback file *)
MaxRounds == 2

Funds == {"F1", "F2"}

(* Thursday and Friday: the dates of daily files and of lookback rows *)
FileDates == {3, 4}

(* Saturday: the date data is carried forward to *)
CarryDates == {5}

SeqsUpTo(S, n) == UNION {[1..m -> S] : m \in 1..n}

(* A dataframe in table columns, as the tests hand to load_to_database *)
TableShapedRow(f) ==
    ("fund_code" :> f) @@ ("fund_name" :> Text(<<"A">>)) @@
    ("share_class_assets" :> Num(40)) @@ ("wam" :> Num(7))

(* A row of a spreadsheet, as read_excel returns it *)
ExcelRow(d, f, name, sca, w) ==
    ("Date" :> d) @@ ("Fund Code" :> f) @@ ("Fund Name" :> name) @@
    ("Share Class Assets (dly/$mils)" :> sca) @@ ("WAM (dly)" :> w)

LoadFiles ==
    { << TableShapedRow("F1") >>,
      << TableShapedRow("F1"), TableShapedRow("F2") >>,
      << TableShapedRow("F1"), TableShapedRow("F1") >> }
    \cup { << ExcelRow(d, "F1", Text(<<"A">>), Num(40), Num(7)) >> : d \in FileDates }

(* The rows of lookback files.  Against a stored "A" / 40 / 7: fund F1   *)
(* comes with share class assets 43 (a change beyond the threshold) on    *)
(* either date or with '-' (the null token) on Thursday, and with another *)
(* WAM; fund F2 comes with 42 (exactly the threshold, not flagged) and    *)
(* another name.                                                          *)
RefRows ==
    {ExcelRow(d, "F1", Text(<<"A">>), Num(43), Num(8)) : d \in FileDates}
    \cup {ExcelRow(3, "F1", Text(<<"A">>), Text(<<"-">>), Num(8))}
    \cup {ExcelRow(d, "F2", Text(<<"B">>), Num(42), Num(7)) : d \in FileDates}

LookbackFiles == SeqsUpTo(RefRows, MaxRows)

UpdateModes == {"selective", "full"}

----------------------------------------------------------------------------
(* The state machine *)

Init ==
    /\ fund_data = {}
    /\ lookback_df = <<>>
    /\ validation_results = EmptyResults
    /\ compared_dates = {}
    /\ update_result = NotCalled
    /\ before = {}
    /\ last = [op |-> "init", region |-> "", mode |-> "", wrote |-> FALSE, raised |-> FALSE]
    /\ loads = 0
    /\ ChromeIdle
    /\ BackfillIdle
    /\ RetryIdle
    /\ rounds = 0
    /\ change_threshold = ThresholdPct
    /\ load_args = NoLoad
    /\ DailyIdle
    /\ LockIdle
    /\ ApiIdle
    /\ RunIdle
    /\ TrackerIdle
    /\ ConfigIdle
    /\ CalendarIdle

(* load_to_database(df, region, file_date) *)
load_to_database ==
    /\ lookback_df = <<>>
    /\ loads < MaxLoads
    /\ \E df \in LoadFiles, region \in Regions, file_date \in FileDates :
          LET finish(out) ==
                  /\ fund_data' = out.table
                  /\ before' = fund_data
                  /\ last' = [op |-> "load", region |-> region, mode |-> "",
                              wrote |-> FALSE, raised |-> out.raised]
                  /\ load_args' = [df |-> df, region |-> region, file_date |-> file_date,
                                   status |-> IF out.raised THEN "" ELSE "SUCCESS",
                                   records_processed |-> IF out.raised THEN 0 ELSE Len(df)]
          IN  finish(LoadOutcome(fund_data, df, region, file_date))
    /\ loads' = loads + 1
    /\ UNCHANGED <<lookback_df, validation_results, compared_dates, update_result, rounds>>
    /\ UNCHANGED <<change_threshold, daily_vars, lock_vars, api_vars, run_vars, tracker_vars, config_vars, calendar_vars, retry_vars, backfill_vars, chrome_vars>>

(* carry_forward_data(date, region) *)
carry_forward_data ==
    /\ lookback_df = <<>>
    /\ loads < MaxLoads
    /\ \E date \in CarryDates, region \in Regions :
          /\ fund_data' = CarryForwardOutcome(fund_data, date, region)
          /\ before' = fund_data
          /\ load_args' = CarryForwardLog(fund_data, date, region)
          /\ last' = [op |-> "carry", region |-> region, mode |-> "",
                      wrote |-> FALSE, raised |-> FALSE]
    /\ loads' = loads + 1
    /\ UNCHANGED <<lookback_df, validation_results, compared_dates, update_result, rounds>>
    /\ UNCHANGED <<change_threshold, daily_vars, lock_vars, api_vars, run_vars, tracker_vars, config_vars, calendar_vars, retry_vars, backfill_vars, chrome_vars>>

(* validate_against_lookback(region, lookback_df) on a downloaded file *)
Validate(region, df) ==
    LET finish(out) ==
            /\ lookback_df' = df
            /\ validation_results' = out.results
            /\ compared_dates' = out.compared
            /\ last' = [op |-> "validate", region |-> region, mode |-> "",
                        wrote |-> FALSE, raised |-> out.raised]
            /\ before' = fund_data
            /\ UNCHANGED <<fund_data, update_result, loads, rounds>>
            /\ UNCHANGED <<change_threshold, daily_vars, lock_vars, api_vars, run_vars, tracker_vars, config_vars, calendar_vars, retry_vars, backfill_vars, chrome_vars>>
            /\ load_args' = NoLoad
    IN  finish(ValidationOutcome(fund_data, region, df))

validate_against_lookback ==
    /\ lookback_df = <<>>
    /\ \E region \in Regions, df \in LookbackFiles : Validate(region, df)

(* validate_against_lookback again, on the same file, after an update *)
validate_again ==
    /\ last.op = "update"
    /\ update_result.returned = "dict"
    /\ rounds < MaxRounds
    /\ Validate(last.region, lookback_df)

(* update_from_lookback(region, lookback_df, validation_results, update_mode) *)
update_from_lookback ==
    /\ last.op = "validate"
    /\ rounds < MaxRounds
    /\ \E update_mode \in UpdateModes :
       \E fault \in 0..(IF update_mode = "selective"
                        THEN SelectiveStatements(lookback_df, validation_results)
                        ELSE FullStatements(lookback_df)) :
          LET finish(out) ==
                  /\ fund_data' = out.table
                  /\ update_result' = out.result
                  /\ before' = fund_data
                  /\ last' = [op |-> "update", region |-> last.region,
                              mode |-> update_mode,
                              wrote |-> out.wrote, raised |-> out.raised]
          IN  finish(UpdateOutcome(fund_data, last.region, lookback_df,
                                   validation_results, update_mode, fault))
    /\ rounds' = rounds + 1
    /\ UNCHANGED <<lookback_df, validation_results, compared_dates, loads>>
    /\ UNCHANGED <<change_threshold, daily_vars, lock_vars, api_vars, run_vars, tracker_vars, config_vars, calendar_vars, retry_vars, backfill_vars, chrome_vars>>
    /\ load_args' = NoLoad

Next ==
    \/ load_to_database
    \/ carry_forward_data
    \/ validate_against_lookback
    \/ validate_again
    \/ update_from_lookback

Spec == Init /\ [][Next]_vars

----------------------------------------------------------------------------
(* _compare_dataframes on its own: one stored row, one lookback row and a  *)
(* configured threshold, each drawn from a small set.                      *)

(* Stored share_class_assets values: NULL, zero, values within and just    *)
(* beyond epsilon of zero, and ordinary values of either sign.             *)
CompareStored == {Null, Num(0), Num(1), Num(2), Num(3), Num(40), Num(100), Num(-40)}

(* Lookback values: NaN, the '-' token, values around zero and values at   *)
(* 5% and 10% of the stored ones, one unit to either side.                 *)
CompareReference ==
    {Null, Text(<<"-">>), Num(0), Num(1), Num(3), Num(4), Num(41), Num(42), Num(43),
     Num(44), Num(45), Num(105), Num(106), Num(-42), Num(-43)}

(* change_threshold_percent settings *)
Thresholds == {0, 5, 10}

InitCompare ==
    /\ \E a \in CompareStored :
          fund_data = {StoredRow(("date" :> 3) @@ ("region" :> "AMRS") @@
                                 [TableShapedRow("F1") EXCEPT !["share_class_assets"] = a])}
    /\ change_threshold \in Thresholds
    /\ load_args = NoLoad
    /\ lookback_df = <<>>
    /\ validation_results = EmptyResults
    /\ compared_dates = {}
    /\ update_result = NotCalled
    /\ before = {}
    /\ last = [op |-> "init", region |-> "", mode |-> "", wrote |-> FALSE, raised |-> FALSE]
    /\ loads = 0
    /\ ChromeIdle
    /\ BackfillIdle
    /\ RetryIdle
    /\ rounds = 0
    /\ DailyIdle
    /\ LockIdle
    /\ ApiIdle
    /\ RunIdle
    /\ TrackerIdle
    /\ ConfigIdle
    /\ CalendarIdle

(* _compare_dataframes(db_df, lookback_df, critical_fields, threshold_pct) *)
compare_dataframes ==
    /\ last.op = "init"
    /\ \E b \in CompareReference :
          LET row == ExcelRow(3, "F1", Text(<<"A">>), b, Num(7))
              finish(res) ==
                  /\ lookback_df' = <<row>>
                  /\ validation_results' =
                        [EmptyResults EXCEPT !.changed_records = res.changes]
                  /\ last' = [op |-> "compare", region |-> "AMRS", mode |-> "",
                              wrote |-> FALSE, raised |-> res.raised]
          IN  finish(_compare_dataframes(StoredRows(fund_data, "AMRS", 3), <<row>>,
                                         critical_fields, change_threshold))
    /\ UNCHANGED <<fund_data, compared_dates, update_result, before, loads, rounds>>
    /\ UNCHANGED <<change_threshold, daily_vars, lock_vars, api_vars, run_vars, tracker_vars, config_vars, calendar_vars, retry_vars, backfill_vars, chrome_vars>>
    /\ load_args' = NoLoad

NextCompare == compare_dataframes

SpecCompare == InitCompare /\ [][NextCompare]_vars

----------------------------------------------------------------------------
(* run_daily_etl: one region's file from read_excel to load_to_database *)

(* A Date cell that does not parse as a date, and what                    *)
(* pd.to_datetime(errors='coerce') makes of it.                           *)
BadDate == 0 - 1

NaT == 0 - 2

to_datetime(d) == IF d = BadDate THEN NaT ELSE d

(* The number of '#MULTIVALUE' rows among the first i rows *)
MultivalueRank(df, i) ==
    Cardinality({j \in 1..i : df[j]["Fund Code"] = "#MULTIVALUE"})

(* _handle_multivalue_funds(df) *)
_handle_multivalue_funds(df) ==
    [i \in 1..Len(df) |->
        IF df[i]["Fund Code"] = "#MULTIVALUE"
        THEN [df[i] EXCEPT !["Fund Code"] =
                  "#MULTIVALUE_" \o ToString(MultivalueRank(df, i))]
        ELSE df[i]]

(* validate_dataframe(df, region): is_valid.  Of its checks the frames    *)
(* here can fail the empty one and the duplicate Fund Code one; every     *)
(* issue makes the frame invalid.                                         *)
validate_dataframe(df) ==
    /\ df # <<>>
    /\ \A i, j \in 1..Len(df) : df[i]["Fund Code"] = df[j]["Fund Code"] => i = j

WithDate(df, d) == [i \in 1..Len(df) |-> [df[i] EXCEPT !["Date"] = d]]

(* df + saturday_df + sunday_df *)
ExpandWeekend(df, d) == df \o WithDate(df, d + 1) \o WithDate(df, d + 2)

(* process_dates(df, file_date): the returned frame, or raised when      *)
(* df['Date'].iloc[0] finds no row.  file_date is not read.               *)
process_dates(df) ==
    LET expand(kept) ==
            IF kept = <<>> THEN [raised |-> TRUE, df |-> <<>>]
            ELSE IF weekday(kept[1]["Date"]) = 4
                 THEN [raised |-> FALSE, df |-> ExpandWeekend(kept, kept[1]["Date"])]
            ELSE [raised |-> FALSE, df |-> kept]
        parse(parsed) == expand(SelectSeq(parsed, LAMBDA r : r["Date"] # NaT))
    IN  parse([i \in 1..Len(df) |-> [df[i] EXCEPT !["Date"] = to_datetime(@)]])

(* The most rows a daily file has *)
MaxFileRows == 3

(* The rows of daily files: a Thursday, a Friday or an unparsable Date,   *)
(* an ordinary or the placeholder fund code, one of two asset values.     *)
FileRows ==
    {ExcelRow(d, f, Text(<<"A">>), Num(a), Num(7)) :
        d \in FileDates \cup {BadDate}, f \in {"F1", "#MULTIVALUE"}, a \in {40, 41}}

DailyFiles == SeqsUpTo(FileRows, MaxFileRows)

InitDaily ==
    /\ fund_data = {}
    /\ lookback_df = <<>>
    /\ validation_results = EmptyResults
    /\ compared_dates = {}
    /\ update_result = NotCalled
    /\ before = {}
    /\ last = [op |-> "init", region |-> "", mode |-> "", wrote |-> FALSE, raised |-> FALSE]
    /\ loads = 0
    /\ ChromeIdle
    /\ BackfillIdle
    /\ RetryIdle
    /\ rounds = 0
    /\ change_threshold = ThresholdPct
    /\ load_args = NoLoad
    /\ raw_df \in DailyFiles
    /\ daily_df = raw_df
    /\ daily_pc = "read"
    /\ daily_date \in FileDates
    /\ daily_region \in Regions
    /\ LockIdle
    /\ ApiIdle
    /\ RunIdle
    /\ TrackerIdle
    /\ ConfigIdle
    /\ CalendarIdle

(* df = self._handle_multivalue_funds(df) *)
daily_handle_multivalue_funds ==
    /\ daily_pc = "read"
    /\ daily_df' = _handle_multivalue_funds(daily_df)
    /\ daily_pc' = "handled"
    /\ UNCHANGED <<fund_data, recon_vars, lock_vars, api_vars, run_vars, tracker_vars, config_vars, calendar_vars, raw_df, daily_date, daily_region, retry_vars, backfill_vars, chrome_vars>>

(* is_valid, issues = self.validate_dataframe(df, region) *)
daily_validate_dataframe ==
    /\ daily_pc = "handled"
    /\ daily_pc' = IF validate_dataframe(daily_df) THEN "valid" ELSE "rejected"
    /\ UNCHANGED <<fund_data, recon_vars, lock_vars, api_vars, run_vars, tracker_vars, config_vars, calendar_vars, raw_df, daily_df, daily_date, daily_region, retry_vars, backfill_vars, chrome_vars>>

(* df = self.process_dates(df, data_date) *)
daily_process_dates ==
    /\ daily_pc = "valid"
    /\ LET finish(out) ==
               /\ daily_df' = out.df
               /\ daily_pc' = IF out.raised THEN "failed" ELSE "dated"
       IN  finish(process_dates(daily_df))
    /\ UNCHANGED <<fund_data, recon_vars, lock_vars, api_vars, run_vars, tracker_vars, config_vars, calendar_vars, raw_df, daily_date, daily_region, retry_vars, backfill_vars, chrome_vars>>

(* self.load_to_database(df, region, data_date) *)
daily_load_to_database ==
    /\ daily_pc = "dated"
    /\ LET finish(out) ==
               /\ fund_data' = out.table
               /\ daily_pc' = IF out.raised THEN "failed" ELSE "loaded"
       IN  finish(LoadOutcome(fund_data, daily_df, daily_region, daily_date))
    /\ UNCHANGED <<recon_vars, lock_vars, api_vars, run_vars, tracker_vars, config_vars, calendar_vars, raw_df, daily_df, daily_date, daily_region, retry_vars, backfill_vars, chrome_vars>>

NextDaily ==
    \/ daily_handle_multivalue_funds
    \/ daily_validate_dataframe
    \/ daily_process_dates
    \/ daily_load_to_database

SpecDaily == InitDaily /\ [][NextDaily]_vars

----------------------------------------------------------------------------
(* transform_data on its own: a frame as read from a file, with numeric   *)
(* cells in every encoding the files use.                                  *)

(* The most rows of such a frame *)
MaxFrameRows == 2

(* Share-class-assets cells: a number, NaN, the null tokens in either     *)
(* letter case, digit strings with and without a thousands separator, and *)
(* a text that is none of these.                                          *)
NumericCells ==
    {Num(40), Null, Text(<<"-">>), Text(<<>>), Text(<<"N", "/", "A">>),
     Text(<<"n", "/", "a">>), Text(<<"n", "a", "n">>), Text(<<"1", "2">>),
     Text(<<"1", ",", "2">>), Text(<<"a", "b", "c">>)}

RawFrames ==
    SeqsUpTo({ExcelRow(3, f, Text(<<"A">>), c, Num(7)) : f \in Funds, c \in NumericCells},
             MaxFrameRows)

InitTransform ==
    /\ fund_data = {}
    /\ lookback_df = <<>>
    /\ validation_results = EmptyResults
    /\ compared_dates = {}
    /\ update_result = NotCalled
    /\ before = {}
    /\ last = [op |-> "init", region |-> "", mode |-> "", wrote |-> FALSE, raised |-> FALSE]
    /\ loads = 0
    /\ ChromeIdle
    /\ BackfillIdle
    /\ RetryIdle
    /\ rounds = 0
    /\ change_threshold = ThresholdPct
    /\ load_args = NoLoad
    /\ raw_df \in RawFrames
    /\ daily_df = <<>>
    /\ daily_pc = "raw"
    /\ daily_date \in FileDates
    /\ daily_region \in Regions
    /\ LockIdle
    /\ ApiIdle
    /\ RunIdle
    /\ TrackerIdle
    /\ ConfigIdle
    /\ CalendarIdle

(* df_load = self.transform_data(df, region, file_date) *)
apply_transform_data ==
    /\ daily_pc = "raw"
    /\ daily_df' = transform_data(raw_df, daily_region, daily_date)
    /\ daily_pc' = "transformed"
    /\ UNCHANGED <<fund_data, recon_vars, lock_vars, api_vars, run_vars, tracker_vars, config_vars, calendar_vars, raw_df, daily_date, daily_region, retry_vars, backfill_vars, chrome_vars>>

NextTransform == apply_transform_data

SpecTransform == InitTransform /\ [][NextTransform]_vars

----------------------------------------------------------------------------
(* The scheduler: command-line entry points, acquire_lock, release_lock *)

(* The entry points main() dispatches to, and those that take the lock *)
EntryPoints == {"run_daily_schedule", "run_date_schedule", "run_validation",
                "backfill_missing_dates", "run_historical_load"}

LockingEntryPoints == {"run_daily_schedule", "run_date_schedule", "run_validation"}

(* An entry point that wraps its body in acquire_lock / release_lock *)
TakesLock(entry) == entry \in LockingEntryPoints

InitLock ==
    /\ fund_data = {}
    /\ lookback_df = <<>>
    /\ validation_results = EmptyResults
    /\ compared_dates = {}
    /\ update_result = NotCalled
    /\ before = {}
    /\ last = [op |-> "init", region |-> "", mode |-> "", wrote |-> FALSE, raised |-> FALSE]
    /\ loads = 0
    /\ ChromeIdle
    /\ BackfillIdle
    /\ RetryIdle
    /\ rounds = 0
    /\ change_threshold = ThresholdPct
    /\ load_args = NoLoad
    /\ DailyIdle
    /\ LockIdle
    /\ ApiIdle
    /\ RunIdle
    /\ TrackerIdle
    /\ ConfigIdle
    /\ CalendarIdle

(* main(): a scheduler process is started with one of the options *)
main(p) ==
    /\ sched[p].pc = "exit"
    /\ sched[p].runs < MaxRuns
    /\ \E entry \in EntryPoints :
          sched' = [sched EXCEPT ![p] =
                       [pc |-> IF TakesLock(entry) THEN "open" ELSE "run",
                        lock_file |-> 0, entry |-> entry, runs |-> @.runs + 1]]
    /\ UNCHANGED <<lock_file_path, flocks, inodes, store_vars, api_vars, run_vars, tracker_vars, config_vars, calendar_vars, retry_vars, backfill_vars, chrome_vars>>

(* acquire_lock: self.lock_file = open(self.lock_file_path, 'w') *)
acquire_open(p) ==
    /\ sched[p].pc = "open"
    /\ IF lock_file_path = 0
       THEN /\ inodes < MaxInodes
            /\ inodes' = inodes + 1
            /\ lock_file_path' = inodes + 1
       ELSE UNCHANGED <<inodes, lock_file_path>>
    /\ sched' = [sched EXCEPT ![p].pc = "flock", ![p].lock_file = lock_file_path']
    /\ UNCHANGED <<flocks, store_vars, api_vars, run_vars, tracker_vars, config_vars, calendar_vars, retry_vars, backfill_vars, chrome_vars>>

(* acquire_lock: fcntl.flock(LOCK_EX | LOCK_NB); on success the pid is    *)
(* written and True returned, on failure the file is closed and the       *)
(* entry point returns False.                                             *)
acquire_flock(p) ==
    /\ sched[p].pc = "flock"
    /\ IF flocks[sched[p].lock_file] = 0
       THEN /\ flocks' = [flocks EXCEPT ![sched[p].lock_file] = p]
            /\ sched' = [sched EXCEPT ![p].pc = "run"]
       ELSE /\ flocks' = flocks
            /\ sched' = [sched EXCEPT ![p].pc = "exit", ![p].lock_file = 0]
    /\ UNCHANGED <<lock_file_path, inodes, store_vars, api_vars, run_vars, tracker_vars, config_vars, calendar_vars, retry_vars, backfill_vars, chrome_vars>>

(* The body of the entry point (run_with_retry, update_from_lookback)    *)
(* has written the store and returns.                                     *)
run_entry_point(p) ==
    /\ sched[p].pc = "run"
    /\ sched' = [sched EXCEPT ![p].pc = IF sched[p].lock_file # 0 THEN "unlock" ELSE "exit"]
    /\ UNCHANGED <<lock_file_path, flocks, inodes, store_vars, api_vars, run_vars, tracker_vars, config_vars, calendar_vars, retry_vars, backfill_vars, chrome_vars>>

(* release_lock: fcntl.flock(self.lock_file.fileno(), fcntl.LOCK_UN) *)
release_unlock(p) ==
    /\ sched[p].pc = "unlock"
    /\ flocks' = [flocks EXCEPT ![sched[p].lock_file] = 0]
    /\ sched' = [sched EXCEPT ![p].pc = "close"]
    /\ UNCHANGED <<lock_file_path, inodes, store_vars, api_vars, run_vars, tracker_vars, config_vars, calendar_vars, retry_vars, backfill_vars, chrome_vars>>

(* release_lock: self.lock_file.close() *)
release_close(p) ==
    /\ sched[p].pc = "close"
    /\ sched' = [sched EXCEPT ![p].pc = "remove"]
    /\ UNCHANGED <<lock_file_path, flocks, inodes, store_vars, api_vars, run_vars, tracker_vars, config_vars, calendar_vars, retry_vars, backfill_vars, chrome_vars>>

(* release_lock: os.remove(self.lock_file_path) unlinks whatever file is  *)
(* at the path (OSError is caught when there is none); finally            *)
(* self.lock_file = None.                                                 *)
release_remove(p) ==
    /\ sched[p].pc = "remove"
    /\ lock_file_path' = 0
    /\ sched' = [sched EXCEPT ![p].pc = "exit", ![p].lock_file = 0]
    /\ UNCHANGED <<flocks, inodes, store_vars, api_vars, run_vars, tracker_vars, config_vars, calendar_vars, retry_vars, backfill_vars, chrome_vars>>

NextLock ==
    \/ \E p \in Procs : main(p)
    \/ \E p \in Procs : acquire_open(p)
    \/ \E p \in Procs : acquire_flock(p)
    \/ \E p \in Procs : run_entry_point(p)
    \/ \E p \in Procs : release_unlock(p)
    \/ \E p \in Procs : release_close(p)
    \/ \E p \in Procs : release_remove(p)

SpecLock == InitLock /\ [][NextLock]_vars

----------------------------------------------------------------------------
(* The API: start requests for ETL workflows (run-daily, validate, run-date) *)

InitApi ==
    /\ fund_data = {}
    /\ lookback_df = <<>>
    /\ validation_results = EmptyResults
    /\ compared_dates = {}
    /\ update_result = NotCalled
    /\ before = {}
    /\ last = [op |-> "init", region |-> "", mode |-> "", wrote |-> FALSE, raised |-> FALSE]
    /\ loads = 0
    /\ ChromeIdle
    /\ BackfillIdle
    /\ RetryIdle
    /\ rounds = 0
    /\ change_threshold = ThresholdPct
    /\ load_args = NoLoad
    /\ DailyIdle
    /\ LockIdle
    /\ ApiIdle
    /\ RunIdle
    /\ TrackerIdle
    /\ ConfigIdle
    /\ CalendarIdle

(* An accepted workflow that has not finished *)
AcceptedUnfinished == \E q \in Requests : api[q].status = 202 /\ api[q].worker = "running"

(* A POST to /api/etl/run-daily, /api/etl/validate or /api/etl/run-date   *)
(* arrives; the handler draws workflow_id = str(uuid.uuid4()).            *)
post_request(r) ==
    /\ api[r].pc = "none"
    /\ api' = [api EXCEPT ![r].pc = "arrived",
                          ![r].at_idle = (running_etl_workflows = {})]
    /\ UNCHANGED <<running_etl_workflows, store_vars, lock_vars, run_vars, tracker_vars, config_vars, calendar_vars, retry_vars, backfill_vars, chrome_vars>>

(* can_start_etl(workflow_type, workflow_id), under etl_execution_lock;   *)
(* on False the handler answers 409.                                      *)
can_start_etl(r) ==
    /\ api[r].pc = "arrived"
    /\ IF Cardinality(running_etl_workflows) = 0
       THEN /\ running_etl_workflows' = running_etl_workflows \cup {r}
            /\ api' = [api EXCEPT ![r].pc = "reserved", ![r].busy = AcceptedUnfinished]
       ELSE /\ running_etl_workflows' = running_etl_workflows
            /\ api' = [api EXCEPT ![r].pc = "answered", ![r].status = 409,
                                  ![r].busy = AcceptedUnfinished]
    /\ UNCHANGED <<store_vars, lock_vars, run_vars, tracker_vars, config_vars, calendar_vars, retry_vars, backfill_vars, chrome_vars>>

(* The handler after the reservation: the workflow is recorded, the       *)
(* worker thread started and 202 returned.                                *)
start_thread(r) ==
    /\ api[r].pc = "reserved"
    /\ api' = [api EXCEPT ![r].pc = "answered", ![r].status = 202,
                          ![r].worker = "running"]
    /\ UNCHANGED <<running_etl_workflows, store_vars, lock_vars, run_vars, tracker_vars, config_vars, calendar_vars, retry_vars, backfill_vars, chrome_vars>>

(* The handler after the reservation: workflow_tracker.start_workflow or  *)
(* thread.start() raises; `except Exception` returns 500.                 *)
handler_fails(r) ==
    /\ api[r].pc = "reserved"
    /\ api' = [api EXCEPT ![r].pc = "answered", ![r].status = 500]
    /\ UNCHANGED <<running_etl_workflows, store_vars, lock_vars, run_vars, tracker_vars, config_vars, calendar_vars, retry_vars, backfill_vars, chrome_vars>>

(* run_etl_process(workflow_id, command_args) ends, normally or not:     *)
(* finally: running_etl_workflows.discard(workflow_id)                    *)
run_etl_process(r) ==
    /\ api[r].worker = "running"
    /\ running_etl_workflows' = running_etl_workflows \ {r}
    /\ api' = [api EXCEPT ![r].worker = "finished"]
    /\ UNCHANGED <<store_vars, lock_vars, run_vars, tracker_vars, config_vars, calendar_vars, retry_vars, backfill_vars, chrome_vars>>

NextApi ==
    \/ \E r \in Requests : post_request(r)
    \/ \E r \in Requests : can_start_etl(r)
    \/ \E r \in Requests : start_thread(r)
    \/ \E r \in Requests : handler_fails(r)
    \/ \E r \in Requests : run_etl_process(r)

SpecApi == InitApi /\ [][NextApi]_vars

(* The same requests under the scheduling the server gives them: a        *)
(* request that has arrived is checked, a handler that holds the          *)
(* reservation runs on to its answer (on either branch), and a started    *)
(* worker thread runs until its subprocess has ended.  Nothing obliges a  *)
(* further request to arrive.                                             *)
ApiFairness ==
    \A r \in Requests :
       /\ WF_vars(can_start_etl(r))
       /\ WF_vars(start_thread(r) \/ handler_fails(r))
       /\ WF_vars(run_etl_process(r))

SpecApiFair == InitApi /\ [][NextApi]_vars /\ ApiFairness

----------------------------------------------------------------------------
(* The lookback validation pass over both regions                          *)

(* for region in ['AMRS', 'EMEA'] *)
RunRegions == <<"AMRS", "EMEA">>

(* The most rows of a lookback file of a pass *)
MaxRunRows == 1

RunFiles == SeqsUpTo(RefRows, MaxRunRows)

(* The table before a pass: for every region nothing, or fund F1 on       *)
(* Thursday.                                                              *)
RunStores ==
    {{StoredRow(AddCol(AddCol(TableShapedRow("F1"), "date", 3), "region", r)) : r \in rs} :
        rs \in SUBSET Regions}

(* What goes wrong while a region is reconciled:                          *)
(*   download  download_lookback_file returns None                        *)
(*   connect   validate_against_lookback raises before its try block      *)
(*   plan      validate_against_lookback fails inside its try block at    *)
(*             once and returns the plan it started with                  *)
(*   apply     a statement of update_from_lookback raises                 *)
RunFaults == {"none", "download", "connect", "plan", "apply"}

(* The entry points and the update mode each passes on: run_daily_etl     *)
(* leaves update_mode at its default.                                     *)
RunEntries ==
    {[entry |-> "run_daily_etl", mode |-> "selective"]}
    \cup {[entry |-> "run_validation", mode |-> m] : m \in UpdateModes}

(* The number of statements of one update_from_lookback call *)
UpdateStatements(df, results, mode) ==
    IF mode = "selective" THEN SelectiveStatements(df, results) ELSE FullStatements(df)

(* The entry a region leaves in the summary of the pass: run_daily_etl    *)
(* appends to validation_alerts only for a plan that requires an update   *)
(* and for an exception, run_validation appends to validation_summary for *)
(* every region.                                                          *)
SummaryEntry(entry, region, outcome) ==
    IF entry = "run_daily_etl" /\ outcome \in {"no file", "no update"} THEN <<>>
    ELSE << [region |-> region, outcome |-> outcome] >>

(* The plan validate_against_lookback returns for a region *)
RegionPlan(table, region, df, fault) ==
    IF fault = "plan" THEN EmptyResults
    ELSE ValidationOutcome(table, region, df).results

(* The statements of the region's update that an apply fault can hit; 0   *)
(* stands for no failing statement.                                       *)
FailingStatements(df, results, mode, fault) ==
    IF fault = "apply" THEN 1..UpdateStatements(df, results, mode) ELSE {0}

(* The body of the loop for one region: the table afterwards, what the    *)
(* region adds to the summary and whether the body left through its       *)
(* except clause.                                                         *)
ReconcileRegion(table, entry, mode, region, df, results, fault, stmt) ==
    LET done(outcome, t, raised) ==
            [table |-> t, summary |-> SummaryEntry(entry, region, outcome),
             raised |-> raised]
    IN  CASE fault = "download" -> done("no file", table, FALSE)
          [] fault = "connect" -> done("error", table, TRUE)
          [] results.summary.requires_update ->
                done("update",
                     UpdateOutcome(table, region, df, results, mode, stmt).table,
                     FALSE)
          [] OTHER -> done("no update", table, FALSE)

(* The loop goes on to the next region whether or not the body raised:    *)
(* the try statement is inside the loop.                                  *)
NextRegionAborting(i, raised) == IF raised THEN Len(RunRegions) + 1 ELSE i + 1

NextRegion(i, raised) == i + 1

InitRun ==
    /\ fund_data \in RunStores
    /\ lookback_df = <<>>
    /\ validation_results = EmptyResults
    /\ compared_dates = {}
    /\ update_result = NotCalled
    /\ before = {}
    /\ last = [op |-> "init", region |-> "", mode |-> "", wrote |-> FALSE, raised |-> FALSE]
    /\ loads = 0
    /\ ChromeIdle
    /\ BackfillIdle
    /\ RetryIdle
    /\ rounds = 0
    /\ change_threshold = ThresholdPct
    /\ load_args = NoLoad
    /\ DailyIdle
    /\ LockIdle
    /\ ApiIdle
    /\ TrackerIdle
    /\ ConfigIdle
    /\ CalendarIdle
    /\ \E e \in RunEntries, files \in [Regions -> RunFiles], bad \in Regions,
          fault \in RunFaults :
          validation_run = [pc |-> "loop", entry |-> e.entry, mode |-> e.mode, i |-> 1,
                 files |-> files,
                 faults |-> [r \in Regions |-> IF r = bad THEN fault ELSE "none"],
                 start |-> fund_data, summary |-> <<>>]

(* One iteration of the loop over the regions *)
reconcile_region ==
    /\ validation_run.pc = "loop"
    /\ validation_run.i <= Len(RunRegions)
    /\ LET finish(out) ==
               /\ fund_data' = out.table
               /\ validation_run' = [validation_run EXCEPT !.i = NextRegion(validation_run.i, out.raised),
                                     !.summary = validation_run.summary \o out.summary]
           apply(region, df, results, fault) ==
               \E stmt \in FailingStatements(df, results, validation_run.mode, fault) :
                  finish(ReconcileRegion(fund_data, validation_run.entry, validation_run.mode, region,
                                         df, results, fault, stmt))
           body(region, df, fault) ==
               apply(region, df, RegionPlan(fund_data, region, df, fault), fault)
       IN  body(RunRegions[validation_run.i], validation_run.files[RunRegions[validation_run.i]],
                validation_run.faults[RunRegions[validation_run.i]])
    /\ UNCHANGED <<recon_vars, daily_vars, lock_vars, api_vars, tracker_vars, config_vars, calendar_vars, retry_vars, backfill_vars, chrome_vars>>

(* return {'success': True, 'validation_alerts': validation_alerts} /     *)
(* return True after the summary is printed                               *)
return_summary ==
    /\ validation_run.pc = "loop"
    /\ validation_run.i > Len(RunRegions)
    /\ validation_run' = [validation_run EXCEPT !.pc = "returned"]
    /\ UNCHANGED <<fund_data, recon_vars, daily_vars, lock_vars, api_vars, tracker_vars, config_vars, calendar_vars, retry_vars, backfill_vars, chrome_vars>>

NextRun ==
    \/ reconcile_region
    \/ return_summary

SpecRun == InitRun /\ [][NextRun]_vars

----------------------------------------------------------------------------
(* DatabaseWorkflowTracker (src/workflow_db_tracker.py): one workflow row  *)
(* updated by several threads through one tracker.  json.dumps and         *)
(* json.loads of the output column are inverse on lists of entries, and an *)
(* entry is represented by its message.                                    *)

(* current_output[-100:] *)
OutputLimit == 100

(* datetime.now().isoformat(): a value that is not NULL *)
Now == 1

(* s[:n], the oldest entries *)
KeepFirst(s, n) == IF Len(s) <= n THEN s ELSE SubSeq(s, 1, n)

(* s[-n:] *)
KeepLast(s, n) == IF Len(s) <= n THEN s ELSE SubSeq(s, Len(s) - n + 1, Len(s))

(* A lock that excludes nobody *)
LockIgnored(holder) == TRUE

(* threading.Lock: acquired only while no thread holds it *)
LockFree(holder) == holder = 0

(* The n-th output line of thread t *)
Line(t, n) == "Worker " \o ToString(t) \o " - Line " \o ToString(n)

(* The output of a workflow that has been given k lines before *)
EarlierOutput(k) == [i \in 1..k |-> "Output line " \o ToString(i)]

(* The arguments of the n-th call of thread t: an output line, the status *)
(* 'running', both or neither, or a final status.                         *)
CallArgs(t, n) ==
    {[output_line |-> l, status |-> st] : l \in {"", Line(t, n)}, st \in {"", "running"}}
    \cup {[output_line |-> "", status |-> st] : st \in {"completed", "failed"}}

InitTracker ==
    /\ fund_data = {}
    /\ lookback_df = <<>>
    /\ validation_results = EmptyResults
    /\ compared_dates = {}
    /\ update_result = NotCalled
    /\ before = {}
    /\ last = [op |-> "init", region |-> "", mode |-> "", wrote |-> FALSE, raised |-> FALSE]
    /\ loads = 0
    /\ ChromeIdle
    /\ BackfillIdle
    /\ RetryIdle
    /\ rounds = 0
    /\ change_threshold = ThresholdPct
    /\ load_args = NoLoad
    /\ DailyIdle
    /\ LockIdle
    /\ ApiIdle
    /\ RunIdle
    /\ ConfigIdle
    /\ CalendarIdle
    /\ \/ workflows = NoRow
       \/ workflows = [exists |-> TRUE, status |-> "pending", started_at |-> NULL,
                       completed_at |-> NULL,
                       output |-> EarlierOutput(OutputLimit - 1)]
    /\ tracker = [lock |-> 0, threads |-> [t \in Threads |-> IdleThread],
                  given |-> workflows.output, contended |-> FALSE]

(* start_workflow(workflow_type, params): the INSERT under self.lock *)
start_workflow ==
    /\ ~workflows.exists
    /\ LockFree(tracker.lock)
    /\ workflows' = [exists |-> TRUE, status |-> "pending", started_at |-> NULL,
                     completed_at |-> NULL, output |-> <<>>]
    /\ UNCHANGED <<store_vars, lock_vars, api_vars, run_vars, config_vars, calendar_vars, tracker, retry_vars, backfill_vars, chrome_vars>>

(* A thread calls update_workflow and arrives at `with self.lock` *)
call_update_workflow(t) ==
    /\ tracker.threads[t].pc = "idle"
    /\ tracker.threads[t].calls < MaxCalls
    /\ \E args \in CallArgs(t, tracker.threads[t].calls + 1) :
          tracker' = [tracker EXCEPT
                         !.threads[t].pc = "waiting",
                         !.threads[t].output_line = args.output_line,
                         !.threads[t].status = args.status,
                         !.contended = tracker.contended \/ tracker.lock # 0]
    /\ UNCHANGED <<store_vars, lock_vars, api_vars, run_vars, config_vars, calendar_vars, workflows, retry_vars, backfill_vars, chrome_vars>>

(* with self.lock: *)
acquire_tracker_lock(t) ==
    /\ tracker.threads[t].pc = "waiting"
    /\ LockFree(tracker.lock)
    /\ tracker' = [tracker EXCEPT !.lock = t, !.threads[t].pc = "locked"]
    /\ UNCHANGED <<store_vars, lock_vars, api_vars, run_vars, config_vars, calendar_vars, workflows, retry_vars, backfill_vars, chrome_vars>>

(* SELECT output, status FROM workflows WHERE id = ?; without a row the   *)
(* call returns and the lock is released.                                 *)
select_workflow(t) ==
    /\ tracker.threads[t].pc = "locked"
    /\ IF workflows.exists
       THEN tracker' = [tracker EXCEPT
                           !.threads[t].pc = "selected",
                           !.threads[t].current_output = workflows.output]
       ELSE tracker' = [tracker EXCEPT
                           !.lock = 0,
                           !.threads[t] = [IdleThread EXCEPT
                                              !.calls = tracker.threads[t].calls + 1]]
    /\ UNCHANGED <<store_vars, lock_vars, api_vars, run_vars, config_vars, calendar_vars, workflows, retry_vars, backfill_vars, chrome_vars>>

(* The output update_workflow writes: the line is appended if it is true, *)
(* and the last OutputLimit entries are kept.                             *)
NewOutput(current_output, output_line) ==
    IF output_line # ""
    THEN KeepLast(Append(current_output, output_line), OutputLimit)
    ELSE current_output

(* The row after UPDATE workflows SET output = ?[, status = ?]            *)
(* [, completed_at = ?] WHERE id = ?                                      *)
UpdatedRow(row, output, status) ==
    [row EXCEPT
        !.output = output,
        !.status = IF status # "" THEN status ELSE row.status,
        !.completed_at = IF status \in {"completed", "failed"} THEN Now
                         ELSE row.completed_at]

(* The UPDATE, the commit and the release of the lock *)
update_workflow(t) ==
    /\ tracker.threads[t].pc = "selected"
    /\ workflows' = UpdatedRow(workflows,
                               NewOutput(tracker.threads[t].current_output,
                                         tracker.threads[t].output_line),
                               tracker.threads[t].status)
    /\ tracker' = [tracker EXCEPT
                       !.lock = 0,
                       !.threads[t] = [IdleThread EXCEPT
                                          !.calls = tracker.threads[t].calls + 1],
                       !.given = IF tracker.threads[t].output_line # ""
                                 THEN Append(tracker.given, tracker.threads[t].output_line)
                                 ELSE tracker.given]
    /\ UNCHANGED <<store_vars, lock_vars, api_vars, run_vars, config_vars, calendar_vars, retry_vars, backfill_vars, chrome_vars>>

NextTracker ==
    \/ start_workflow
    \/ \E t \in Threads : call_update_workflow(t)
    \/ \E t \in Threads : acquire_tracker_lock(t)
    \/ \E t \in Threads : select_workflow(t)
    \/ \E t \in Threads : update_workflow(t)

SpecTracker == InitTracker /\ [][NextTracker]_vars

----------------------------------------------------------------------------
(* _compare_dataframes under a configured list of critical fields          *)

(* The settings of critical_fields: the default, the weighted average      *)
(* maturity alone, and both.                                               *)
FieldSettings ==
    {<<"share_class_assets">>, <<"wam">>, <<"share_class_assets", "wam">>}

(* Stored and lookback values of the two numeric columns *)
FieldStored == {Null, Num(40)}

FieldReference == {Null, Num(40), Num(43)}

InitFields ==
    /\ \E a \in FieldStored, w \in FieldStored :
          fund_data = {StoredRow(("date" :> 3) @@ ("region" :> "AMRS") @@
                                 [TableShapedRow("F1") EXCEPT
                                     !["share_class_assets"] = a, !["wam"] = w])}
    /\ change_threshold = ThresholdPct
    /\ configured_fields \in FieldSettings
    /\ load_args = NoLoad
    /\ lookback_df = <<>>
    /\ validation_results = EmptyResults
    /\ compared_dates = {}
    /\ update_result = NotCalled
    /\ before = {}
    /\ last = [op |-> "init", region |-> "", mode |-> "", wrote |-> FALSE, raised |-> FALSE]
    /\ loads = 0
    /\ ChromeIdle
    /\ BackfillIdle
    /\ RetryIdle
    /\ rounds = 0
    /\ DailyIdle
    /\ LockIdle
    /\ ApiIdle
    /\ RunIdle
    /\ TrackerIdle
    /\ CalendarIdle

(* _compare_dataframes(db_data, lookback_date_data, critical_fields,      *)
(* change_threshold) with critical_fields read from the configuration     *)
compare_configured_fields ==
    /\ last.op = "init"
    /\ \E b \in FieldReference, w \in FieldReference :
          LET row == ExcelRow(3, "F1", Text(<<"A">>), b, w)
              finish(res) ==
                  /\ lookback_df' = <<row>>
                  /\ validation_results' =
                        [EmptyResults EXCEPT !.changed_records = res.changes]
                  /\ last' = [op |-> "compare", region |-> "AMRS", mode |-> "",
                              wrote |-> FALSE, raised |-> res.raised]
          IN  finish(_compare_dataframes(StoredRows(fund_data, "AMRS", 3), <<row>>,
                                         configured_fields, change_threshold))
    /\ UNCHANGED <<fund_data, compared_dates, update_result, before, loads, rounds>>
    /\ UNCHANGED <<change_threshold, daily_vars, lock_vars, api_vars, run_vars, tracker_vars, config_vars, calendar_vars, retry_vars, backfill_vars, chrome_vars>>
    /\ load_args' = NoLoad

NextFields == compare_configured_fields

SpecFields == InitFields /\ [][NextFields]_vars

----------------------------------------------------------------------------
(* get_prior_business_day                                                  *)

(* The first day of the calendar window, a Monday *)
CalendarStart == 7

(* The number of days after the first in the window *)
MaxDays == 7

CalendarDays == CalendarStart..(CalendarStart + MaxDays)

(* A business day by the day of the week alone *)
is_weekday(us_holidays, date) == weekday(date) < 5

(* date.weekday() < 5 and date not in self.us_holidays *)
is_business_day(us_holidays, date) == weekday(date) < 5 /\ date \notin us_holidays

InitCalendar ==
    /\ fund_data = {}
    /\ lookback_df = <<>>
    /\ validation_results = EmptyResults
    /\ compared_dates = {}
    /\ update_result = NotCalled
    /\ before = {}
    /\ last = [op |-> "init", region |-> "", mode |-> "", wrote |-> FALSE, raised |-> FALSE]
    /\ loads = 0
    /\ ChromeIdle
    /\ BackfillIdle
    /\ RetryIdle
    /\ rounds = 0
    /\ change_threshold = ThresholdPct
    /\ load_args = NoLoad
    /\ DailyIdle
    /\ LockIdle
    /\ ApiIdle
    /\ RunIdle
    /\ TrackerIdle
    /\ ConfigIdle
    /\ \E d \in CalendarDays, h \in SUBSET CalendarDays :
          calendar = [pc |-> "called", date |-> d, prior_date |-> 0, us_holidays |-> h]

(* prior_date = date - timedelta(days=1) *)
prior_day ==
    /\ calendar.pc = "called"
    /\ calendar' = [calendar EXCEPT !.pc = "loop", !.prior_date = calendar.date - 1]
    /\ UNCHANGED <<store_vars, lock_vars, api_vars, run_vars, tracker_vars, config_vars, retry_vars, backfill_vars, chrome_vars>>

(* while not self.is_business_day(prior_date): prior_date -= timedelta(days=1) *)
step_back ==
    /\ calendar.pc = "loop"
    /\ ~is_business_day(calendar.us_holidays, calendar.prior_date)
    /\ calendar' = [calendar EXCEPT !.prior_date = calendar.prior_date - 1]
    /\ UNCHANGED <<store_vars, lock_vars, api_vars, run_vars, tracker_vars, config_vars, retry_vars, backfill_vars, chrome_vars>>

(* return prior_date *)
return_prior_date ==
    /\ calendar.pc = "loop"
    /\ is_business_day(calendar.us_holidays, calendar.prior_date)
    /\ calendar' = [calendar EXCEPT !.pc = "returned"]
    /\ UNCHANGED <<store_vars, lock_vars, api_vars, run_vars, tracker_vars, config_vars, retry_vars, backfill_vars, chrome_vars>>

NextCalendar ==
    \/ prior_day
    \/ step_back
    \/ return_prior_date

(* The call runs in one thread that is never suspended for ever *)
SpecCalendar == InitCalendar /\ [][NextCalendar]_vars /\ WF_vars(NextCalendar)

----------------------------------------------------------------------------
(* run_with_retry(run_date) and the run_daily_etl calls it makes           *)

(* The largest configured retry_config.max_retries *)
MaxRetries == 3

(* What can happen inside one run_daily_etl call: whether run_date is a   *)
(* business day, the regions whose download, validation step or load      *)
(* raised, whether a statement outside the region's try raises            *)
(* (carry_forward_data on a non-business day, the INSERT of the FAILED    *)
(* row), and whether the lookback validation produced alerts.             *)
RunPaths ==
    {p \in [business_day : BOOLEAN, failed : SUBSET Regions,
            raises : BOOLEAN, validation_alerts : BOOLEAN] :
        /\ ~p.business_day => (p.failed = {} /\ ~p.validation_alerts)
        /\ (p.business_day /\ p.failed = {}) => ~p.raises
        /\ p.raises => ~p.validation_alerts}

(* The FAILED rows etl_log holds when the call raised: the INSERT for the *)
(* last failing region is the one that raised.                            *)
RowsBeforeRaise(p) == IF "EMEA" \in p.failed THEN p.failed \ {"EMEA"} ELSE {}

(* A variant that reports a failed region as an unsuccessful run *)
run_daily_etl_strict(p) ==
    IF p.raises
    THEN [returned |-> "raised", business_day |-> p.business_day, success |-> FALSE,
          validation_alerts |-> FALSE, failed_rows |-> RowsBeforeRaise(p)]
    ELSE [returned |-> "dict", business_day |-> p.business_day, success |-> p.failed = {},
          validation_alerts |-> p.validation_alerts, failed_rows |-> p.failed]

(* run_daily_etl(run_date): raised, or the dict returned, together with   *)
(* the regions a FAILED etl_log row was written for.                      *)
run_daily_etl(p) ==
    IF p.raises
    THEN [returned |-> "raised", business_day |-> p.business_day, success |-> FALSE,
          validation_alerts |-> FALSE, failed_rows |-> RowsBeforeRaise(p)]
    ELSE [returned |-> "dict", business_day |-> p.business_day, success |-> TRUE,
          validation_alerts |-> p.validation_alerts, failed_rows |-> p.failed]

(* The legacy check: run['run_date'] is the text read from etl_log and    *)
(* run_date.date() a date object, which never compare equal.              *)
failed_regions(result) == {r \in result.failed_rows : FALSE}

(* The try block raises: run_daily_etl raised, or the legacy check found  *)
(* failed regions.                                                        *)
AttemptRaises(result) ==
    \/ result.returned = "raised"
    \/ ~result.success /\ failed_regions(result) # {}

InitRetry ==
    /\ fund_data = {}
    /\ lookback_df = <<>>
    /\ validation_results = EmptyResults
    /\ compared_dates = {}
    /\ update_result = NotCalled
    /\ before = {}
    /\ last = [op |-> "init", region |-> "", mode |-> "", wrote |-> FALSE, raised |-> FALSE]
    /\ loads = 0
    /\ ChromeIdle
    /\ BackfillIdle
    /\ rounds = 0
    /\ change_threshold = ThresholdPct
    /\ load_args = NoLoad
    /\ DailyIdle
    /\ LockIdle
    /\ ApiIdle
    /\ RunIdle
    /\ TrackerIdle
    /\ ConfigIdle
    /\ CalendarIdle
    /\ \E m \in 0..MaxRetries :
          retry = [pc |-> "loop", max_retries |-> m, attempt |-> 0, calls |-> <<>>,
                   error_alerts |-> 0, update_alerts |-> 0, result |-> FALSE]

(* A further pass for every index of the range *)
WaitsAlways(attempt, max_retries) == attempt < max_retries

(* if attempt < max_retries - 1: wait and go on to the next pass *)
WaitsForRetry(attempt, max_retries) == attempt < max_retries - 1

(* One pass of the loop body: the call, and what the try block or the     *)
(* except block does with its outcome.                                    *)
Attempt(result) ==
    IF ~AttemptRaises(result)
    THEN retry' = [retry EXCEPT
                      !.calls = Append(@, result),
                      !.update_alerts = IF result.success /\ result.validation_alerts
                                        THEN @ + 1 ELSE @,
                      !.pc = "returned", !.result = TRUE]
    ELSE IF WaitsForRetry(retry.attempt, retry.max_retries)
    THEN retry' = [retry EXCEPT !.calls = Append(@, result), !.pc = "sleep"]
    ELSE retry' = [retry EXCEPT
                      !.calls = Append(@, result),
                      !.error_alerts = @ + 1,
                      !.pc = "returned", !.result = FALSE]

(* for attempt in range(max_retries): result = self.etl.run_daily_etl(run_date) *)
retry_attempt ==
    /\ retry.pc = "loop"
    /\ retry.attempt < retry.max_retries
    /\ \E p \in RunPaths : Attempt(run_daily_etl(p))
    /\ UNCHANGED <<store_vars, lock_vars, api_vars, run_vars, tracker_vars, config_vars, calendar_vars, backfill_vars, chrome_vars>>

(* time.sleep(retry_delay * 60), then the next pass *)
retry_sleep ==
    /\ retry.pc = "sleep"
    /\ retry' = [retry EXCEPT !.pc = "loop", !.attempt = @ + 1]
    /\ UNCHANGED <<store_vars, lock_vars, api_vars, run_vars, tracker_vars, config_vars, calendar_vars, backfill_vars, chrome_vars>>

(* The loop ends without a pass having returned: return False *)
retry_exhausted ==
    /\ retry.pc = "loop"
    /\ retry.attempt >= retry.max_retries
    /\ retry' = [retry EXCEPT !.pc = "returned", !.result = FALSE]
    /\ UNCHANGED <<store_vars, lock_vars, api_vars, run_vars, tracker_vars, config_vars, calendar_vars, backfill_vars, chrome_vars>>

NextRetry ==
    \/ retry_attempt
    \/ retry_sleep
    \/ retry_exhausted

(* Every call of run_daily_etl and every sleep ends *)
SpecRetry == InitRetry /\ [][NextRetry]_vars /\ WF_vars(NextRetry)

----------------------------------------------------------------------------
(* backfill_missing_dates(days)                                            *)

(* datetime.now().date(): a Friday *)
BackfillEnd == 4

(* The largest number of days looked back *)
MaxBackfillDays == 2

BackfillStart == BackfillEnd - MaxBackfillDays

(* pd.bdate_range(start, end, freq='B'): the weekdays of the range *)
bdate_range(start, end) == {d \in start..end : weekday(d) < 5}

(* find_missing_dates(start_date, end_date): for every region the         *)
(* weekdays of the range under which the store holds no row of the region *)
find_missing_dates(table, start_date, end_date) ==
    [region \in Regions |->
        {d \in bdate_range(start_date, end_date) : StoredRows(table, region, d) = {}}]

RECURSIVE sorted(_)
sorted(S) ==
    IF S = {} THEN <<>>
    ELSE LET least == CHOOSE d \in S : \A e \in S : d <= e
         IN  <<least>> \o sorted(S \ {least})

RECURSIVE get_prior_business_day(_, _)
get_prior_business_day(us_holidays, date) ==
    IF is_business_day(us_holidays, date - 1) THEN date - 1
    ELSE get_prior_business_day(us_holidays, date - 1)

(* What a region's pass of run_daily_etl finds *)
RegionFinds == {"no_file", "invalid", "file"}

(* The daily file of a data date *)
DailyFileOf(data_date) == <<ExcelRow(data_date, "F1", Text(<<"A">>), Num(40), Num(7))>>

(* The region's pass: carry forward when there is no file, nothing when   *)
(* the file fails validation, otherwise process_dates and the load under  *)
(* data_date; a load that raises is caught and leaves the table as it     *)
(* was.                                                                   *)
RegionPass(table, region, run_date, data_date, finds) ==
    CASE finds = "no_file" -> CarryForwardOutcome(table, run_date, region)
      [] finds = "invalid" -> table
      [] OTHER -> LoadOutcome(table, process_dates(DailyFileOf(data_date)).df,
                              region, data_date).table

(* The region's lookback pass; <<>> stands for download_lookback_file     *)
(* returning None.                                                        *)
LookbackPass(table, region, lookback) ==
    LET apply(results) ==
            IF results.summary.requires_update
            THEN UpdateOutcome(table, region, lookback, results, "selective", 0).table
            ELSE table
    IN  IF lookback = <<>> THEN table
        ELSE apply(ValidationOutcome(table, region, lookback).results)

(* The table after a run_daily_etl(run_date) that returned *)
RunDailyEtlTable(table, us_holidays, run_date, finds, lookback) ==
    IF ~is_business_day(us_holidays, run_date)
    THEN CarryForwardOutcome(CarryForwardOutcome(table, run_date, "AMRS"),
                             run_date, "EMEA")
    ELSE LET data_date == get_prior_business_day(us_holidays, run_date)
             loaded == RegionPass(RegionPass(table, "AMRS", run_date, data_date,
                                             finds["AMRS"]),
                                  "EMEA", run_date, data_date, finds["EMEA"])
         IN  LookbackPass(LookbackPass(loaded, "AMRS", lookback["AMRS"]),
                          "EMEA", lookback["EMEA"])

(* The stores a backfill starts from: for every region fund F1 under the  *)
(* day before the range, under its last day, under both or under neither. *)
BackfillStores ==
    {{StoredRow(AddCol(AddCol(TableShapedRow("F1"), "date", c[2]), "region", c[1])) :
         c \in cs} :
        cs \in SUBSET (Regions \X {BackfillStart - 1, BackfillEnd})}

(* No lookback file, or one with a row of fund F1 under the day before    *)
(* the last.                                                              *)
BackfillLookbacks ==
    {<<>>, <<ExcelRow(BackfillEnd - 1, "F1", Text(<<"A">>), Num(43), Num(8))>>}

InitBackfill ==
    /\ fund_data \in BackfillStores
    /\ lookback_df = <<>>
    /\ validation_results = EmptyResults
    /\ compared_dates = {}
    /\ update_result = NotCalled
    /\ before = {}
    /\ last = [op |-> "init", region |-> "", mode |-> "", wrote |-> FALSE, raised |-> FALSE]
    /\ loads = 0
    /\ ChromeIdle
    /\ rounds = 0
    /\ change_threshold = ThresholdPct
    /\ load_args = NoLoad
    /\ DailyIdle
    /\ LockIdle
    /\ ApiIdle
    /\ RunIdle
    /\ TrackerIdle
    /\ ConfigIdle
    /\ CalendarIdle
    /\ RetryIdle
    /\ \E h \in SUBSET {BackfillEnd - 1} :
          backfill = [pc |-> "find", us_holidays |-> h, missing_dates |-> <<>>,
                      dates_to_backfill |-> <<>>, date |-> 0, completed |-> FALSE]

(* missing_dates = self.monitor.find_missing_dates(...) and the set of    *)
(* dates to backfill                                                      *)
backfill_find ==
    /\ backfill.pc = "find"
    /\ LET found(missing) ==
               backfill' = [backfill EXCEPT
                               !.pc = "loop",
                               !.missing_dates = missing,
                               !.dates_to_backfill =
                                   sorted(UNION {missing[r] : r \in Regions})]
       IN  found(find_missing_dates(fund_data, BackfillStart, BackfillEnd))
    /\ UNCHANGED <<store_vars, lock_vars, api_vars, run_vars, tracker_vars, config_vars, calendar_vars, retry_vars, chrome_vars>>

(* self.run_with_retry(date) for the next date: a run_daily_etl call      *)
(* returned, or every attempt raised and the table is as it was.          *)
backfill_run ==
    /\ backfill.pc = "loop"
    /\ backfill.dates_to_backfill # <<>>
    /\ \E completed \in BOOLEAN, finds \in [Regions -> RegionFinds],
          lookback \in [Regions -> BackfillLookbacks] :
          /\ ~completed =>
                (\A r \in Regions : finds[r] = "invalid" /\ lookback[r] = <<>>)
          /\ fund_data' =
                IF completed
                THEN RunDailyEtlTable(fund_data, backfill.us_holidays,
                                      Head(backfill.dates_to_backfill), finds, lookback)
                ELSE fund_data
          /\ backfill' = [backfill EXCEPT
                             !.dates_to_backfill = Tail(@),
                             !.date = Head(backfill.dates_to_backfill),
                             !.completed = completed]
    /\ UNCHANGED <<recon_vars, daily_vars, lock_vars, api_vars, run_vars, tracker_vars, config_vars, calendar_vars, retry_vars, chrome_vars>>

(* The loop is through, or there was no date to backfill *)
backfill_return ==
    /\ backfill.pc = "loop"
    /\ backfill.dates_to_backfill = <<>>
    /\ backfill' = [backfill EXCEPT !.pc = "done"]
    /\ UNCHANGED <<store_vars, lock_vars, api_vars, run_vars, tracker_vars, config_vars, calendar_vars, retry_vars, chrome_vars>>

NextBackfill ==
    \/ backfill_find
    \/ backfill_run
    \/ backfill_return

(* Every run_with_retry call returns, see SpecRetry *)
SpecBackfill == InitBackfill /\ [][NextBackfill]_vars /\ WF_vars(NextBackfill)

----------------------------------------------------------------------------
(* carry_forward_data on its own, from a store with rows under the dates  *)
(* before and on the target date                                          *)

(* The row of a fund as loaded for a region and date; the assets differ   *)
(* from date to date.                                                     *)
CarryRow(region, date, f) ==
    [StoredRow(AddCol(AddCol(TableShapedRow(f), "date", date), "region", region))
        EXCEPT !["share_class_assets"] = Num(40 + date)]

CarryStores ==
    {{CarryRow(c[1], c[2], c[3]) : c \in cs} :
        cs \in SUBSET (Regions \X (FileDates \cup CarryDates) \X Funds)}

InitCarry ==
    /\ fund_data \in CarryStores
    /\ lookback_df = <<>>
    /\ validation_results = EmptyResults
    /\ compared_dates = {}
    /\ update_result = NotCalled
    /\ before = {}
    /\ last = [op |-> "init", region |-> "", mode |-> "", wrote |-> FALSE, raised |-> FALSE]
    /\ loads = 0
    /\ ChromeIdle
    /\ rounds = 0
    /\ change_threshold = ThresholdPct
    /\ load_args = NoLoad
    /\ DailyIdle
    /\ LockIdle
    /\ ApiIdle
    /\ RunIdle
    /\ TrackerIdle
    /\ ConfigIdle
    /\ CalendarIdle
    /\ RetryIdle
    /\ BackfillIdle

NextCarry == carry_forward_data

SpecCarry == InitCarry /\ [][NextCarry]_vars

----------------------------------------------------------------------------
(* The downloaders and the Chrome driver lock                              *)

InitChrome ==
    /\ fund_data = {}
    /\ lookback_df = <<>>
    /\ validation_results = EmptyResults
    /\ compared_dates = {}
    /\ update_result = NotCalled
    /\ before = {}
    /\ last = [op |-> "init", region |-> "", mode |-> "", wrote |-> FALSE, raised |-> FALSE]
    /\ loads = 0
    /\ rounds = 0
    /\ change_threshold = ThresholdPct
    /\ load_args = NoLoad
    /\ DailyIdle
    /\ LockIdle
    /\ ApiIdle
    /\ RunIdle
    /\ TrackerIdle
    /\ ConfigIdle
    /\ CalendarIdle
    /\ RetryIdle
    /\ BackfillIdle
    /\ chrome = [path |-> 0, flocks |-> [i \in 1..MaxInodes |-> 0],
                 content |-> [i \in 1..MaxInodes |-> 0], made |-> 0, stale |-> FALSE,
                 procs |-> [p \in Downloaders |-> [pc |-> "none", lock_file |-> 0]]]

(* __init__: self.cleanup_stale_locks() unlinks the lock file when its    *)
(* mtime is more than 300 seconds back.                                   *)
cleanup_stale_locks(p) ==
    /\ chrome.procs[p].pc = "none"
    /\ chrome' = [chrome EXCEPT
                     !.path = IF chrome.path # 0 /\ chrome.stale THEN 0 ELSE @,
                     !.stale = IF chrome.path # 0 /\ chrome.stale THEN FALSE ELSE @,
                     !.procs[p].pc = "ready"]
    /\ UNCHANGED <<store_vars, lock_vars, api_vars, run_vars, tracker_vars, config_vars, calendar_vars, retry_vars, backfill_vars>>

(* _setup_driver: lock_file = open(self.CHROME_LOCK_FILE, 'w') creates    *)
(* the file when the path has none and truncates it otherwise.            *)
setup_open(p) ==
    /\ chrome.procs[p].pc = "ready"
    /\ IF chrome.path = 0
       THEN /\ chrome.made < MaxInodes
            /\ chrome' = [chrome EXCEPT
                             !.path = chrome.made + 1,
                             !.made = @ + 1,
                             !.stale = FALSE,
                             !.procs[p] = [pc |-> "try", lock_file |-> chrome.made + 1]]
       ELSE chrome' = [chrome EXCEPT
                          !.content[chrome.path] = 0,
                          !.stale = FALSE,
                          !.procs[p] = [pc |-> "try", lock_file |-> chrome.path]]
    /\ UNCHANGED <<store_vars, lock_vars, api_vars, run_vars, tracker_vars, config_vars, calendar_vars, retry_vars, backfill_vars>>

(* fcntl.flock(lock_file.fileno(), LOCK_EX | LOCK_NB) succeeds *)
setup_flock(p) ==
    /\ chrome.procs[p].pc = "try"
    /\ chrome.flocks[chrome.procs[p].lock_file] = 0
    /\ chrome' = [chrome EXCEPT
                     !.flocks[chrome.procs[p].lock_file] = p,
                     !.procs[p].pc = "locked"]
    /\ UNCHANGED <<store_vars, lock_vars, api_vars, run_vars, tracker_vars, config_vars, calendar_vars, retry_vars, backfill_vars>>

(* lock_file.write(pid); lock_file.flush(); the driver is set up and      *)
(* self._lock_file = lock_file                                            *)
setup_write_pid(p) ==
    /\ chrome.procs[p].pc = "locked"
    /\ chrome' = [chrome EXCEPT
                     !.content[chrome.procs[p].lock_file] = p,
                     !.stale = IF chrome.path = chrome.procs[p].lock_file THEN FALSE ELSE @,
                     !.procs[p].pc = "holding"]
    /\ UNCHANGED <<store_vars, lock_vars, api_vars, run_vars, tracker_vars, config_vars, calendar_vars, retry_vars, backfill_vars>>

(* flock raises IOError after max_wait_time: when the pid in the file at  *)
(* the path is of a process that no longer exists the file is unlinked    *)
(* and the loop continues on the open file; otherwise (no file, no pid,   *)
(* a live pid) TimeoutException leaves _setup_driver, which closes        *)
(* lock_file.                                                             *)
setup_timeout(p) ==
    /\ chrome.procs[p].pc = "try"
    /\ chrome.flocks[chrome.procs[p].lock_file] # 0
    /\ IF /\ chrome.path # 0
          /\ chrome.content[chrome.path] # 0
          /\ chrome.procs[chrome.content[chrome.path]].pc = "dead"
       THEN chrome' = [chrome EXCEPT !.path = 0, !.stale = FALSE]
       ELSE chrome' = [chrome EXCEPT !.procs[p] = [pc |-> "failed", lock_file |-> 0]]
    /\ UNCHANGED <<store_vars, lock_vars, api_vars, run_vars, tracker_vars, config_vars, calendar_vars, retry_vars, backfill_vars>>

(* close(): fcntl.flock(LOCK_UN); self._lock_file.close() *)
close(p) ==
    /\ chrome.procs[p].pc = "holding"
    /\ chrome' = [chrome EXCEPT
                     !.flocks[chrome.procs[p].lock_file] = 0,
                     !.procs[p] = [pc |-> "closed", lock_file |-> 0]]
    /\ UNCHANGED <<store_vars, lock_vars, api_vars, run_vars, tracker_vars, config_vars, calendar_vars, retry_vars, backfill_vars>>

(* The process dies with the lock: the kernel closes its files, which     *)
(* releases the flock; the file and its content stay.                     *)
crash(p) ==
    /\ chrome.procs[p].pc \in {"locked", "holding"}
    /\ chrome' = [chrome EXCEPT
                     !.flocks[chrome.procs[p].lock_file] = 0,
                     !.procs[p] = [pc |-> "dead", lock_file |-> 0]]
    /\ UNCHANGED <<store_vars, lock_vars, api_vars, run_vars, tracker_vars, config_vars, calendar_vars, retry_vars, backfill_vars>>

(* Five minutes pass without a write to the file at the path; no process  *)
(* spends them between opening the file and writing its pid, where the    *)
(* wait is at most max_wait_time.                                         *)
five_minutes_pass ==
    /\ chrome.path # 0
    /\ ~chrome.stale
    /\ \A p \in Downloaders : chrome.procs[p].pc \notin {"try", "locked"}
    /\ chrome' = [chrome EXCEPT !.stale = TRUE]
    /\ UNCHANGED <<store_vars, lock_vars, api_vars, run_vars, tracker_vars, config_vars, calendar_vars, retry_vars, backfill_vars>>

NextChrome ==
    \/ \E p \in Downloaders : cleanup_stale_locks(p)
    \/ \E p \in Downloaders : setup_open(p)
    \/ \E p \in Downloaders : setup_flock(p)
    \/ \E p \in Downloaders : setup_write_pid(p)
    \/ \E p \in Downloaders : setup_timeout(p)
    \/ \E p \in Downloaders : close(p)
    \/ \E p \in Downloaders : crash(p)
    \/ five_minutes_pass

SpecChrome == InitChrome /\ [][NextChrome]_vars

----------------------------------------------------------------------------
(* Properties *)

Updated == last.op = "update"

UpdatedOk == Updated /\ update_result.returned = "dict"

SelectiveOk == UpdatedOk /\ last.mode = "selective"

FullOk == UpdatedOk /\ last.mode = "full"

RowsOf(table, region, date) == StoredRows(table, region, date)

(* The keys the change descriptors of the plan name, for the region *)
ChangedKeys ==
    {<<validation_results.changed_records[i].date, last.region,
       validation_results.changed_records[i].fund_code>> :
        i \in 1..Len(validation_results.changed_records)}

MissingDates == Range(validation_results.missing_dates)

ChangedDates ==
    {validation_results.changed_records[i].date :
        i \in 1..Len(validation_results.changed_records)}

(* The lookback rows of a date as full mode stores them *)
ReferenceRows(region, date) ==
    {StoredRow(r) : r \in Range(FullInsertRows(RowsOfDate(lookback_df, date), region))}

(* C1: an update_from_lookback call in which an exception occurred leaves *)
(* fund_data exactly as it was before the call, in selective and in full  *)
(* mode, whatever it had written before the exception.                    *)
C1_AllOrNothing == (Updated /\ last.raised) => fund_data = before

C1_Witness ==
    /\ Updated /\ last.raised /\ last.wrote
    /\ last.mode = "selective"
    /\ Len(validation_results.changed_records) >= 2

(* C2: when a store write fails during update_from_lookback the exception *)
(* reaches the caller; the call does not return a dict or None.           *)
C2_FailureIsRaised ==
    (Updated /\ last.raised) => update_result.returned \notin {"dict", "None"}

(* C3: after a selective apply of a plan, validating the same lookback    *)
(* file again reports no missing date and no changed record, and a second *)
(* selective apply changes nothing and reports records_updated = 0.       *)
C3_SelectiveIdempotent ==
    /\ (last.op = "validate" /\ rounds >= 1 /\ update_result.returned = "dict"
            /\ update_result.mode = "selective")
         => (validation_results.missing_dates = <<>>
             /\ validation_results.changed_records = <<>>)
    /\ (SelectiveOk /\ rounds >= 2)
         => (fund_data = before /\ update_result.records_updated = 0)

(* The columns the plan lists as changed for a key *)
ChangedFieldNames(key) ==
    UNION {{c.changed_fields[j].field : j \in 1..Len(c.changed_fields)} :
            c \in {d \in Range(validation_results.changed_records) :
                     <<d.date, last.region, d.fund_code>> = key}}

(* C4: a selective apply modifies, on the row of a changed record, only   *)
(* the columns named in the record's changed_fields.                      *)
C4_OnlyChangedFields ==
    SelectiveOk =>
        \A t \in before : \A u \in fund_data :
            (Key(t) = Key(u) /\ Key(t) \in ChangedKeys) =>
                \A c \in TableColumns \ ChangedFieldNames(Key(t)) : u[c] = t[c]

(* C5: a selective apply deletes no stored row, and changes only rows     *)
(* whose key a change descriptor of the plan names.                       *)
C5_SelectiveFrame ==
    (Updated /\ last.mode = "selective") =>
        \A t \in before :
            /\ \E u \in fund_data : Key(u) = Key(t)
            /\ t \notin fund_data => Key(t) \in ChangedKeys

C5_Witness ==
    /\ SelectiveOk
    /\ fund_data # before
    /\ \E c \in Range(validation_results.changed_records) :
          /\ c.type = "new_fund"
          /\ \E t \in fund_data :
                /\ t["date"] = c.date /\ t["region"] = last.region
                /\ Key(t) \notin ChangedKeys

(* C6: after an apply of a plan whose missing_dates contains D, the store *)
(* holds a row for every reference row of D, and as many rows for         *)
(* (region, D) as D has reference rows after de-duplication.              *)
C6_MissingDatesInserted ==
    UpdatedOk =>
        \A d \in MissingDates :
            /\ \A r \in Range(RowsOfDate(lookback_df, d)) :
                  \E t \in fund_data : Key(t) = <<d, last.region, r["Fund Code"]>>
            /\ Cardinality(RowsOf(fund_data, last.region, d))
                  = Cardinality({r["Fund Code"] : r \in Range(RowsOfDate(lookback_df, d))})

(* C7: in a plan every date of the lookback file is either listed in      *)
(* missing_dates or was compared against the store, never both and never  *)
(* neither.                                                               *)
C7_EveryDateAccounted ==
    last.op = "validate" =>
        \A d \in Range(LookbackDatesOf(lookback_df)) :
            (d \in MissingDates) # (d \in compared_dates)

(* C8: a full apply of a plan that requires an update replaces exactly   *)
(* the dates the plan names: each holds the reference rows afterwards,    *)
(* and the rows of every other date and of the other region are unchanged.*)
C8_FullReplacesPlanDates ==
    (FullOk /\ validation_results.summary.requires_update) =>
        /\ \A d \in MissingDates \cup ChangedDates :
              RowsOf(fund_data, last.region, d) = ReferenceRows(last.region, d)
        /\ \A t \in before \cup fund_data :
              (t["region"] # last.region \/ t["date"] \notin MissingDates \cup ChangedDates)
                 => (t \in before /\ t \in fund_data)

(* A plan of exactly one value_change and nothing else *)
SingleValueChange ==
    /\ validation_results.missing_dates = <<>>
    /\ Len(validation_results.changed_records) = 1
    /\ validation_results.changed_records[1].type = "value_change"

(* What the other mode makes of the store the last update started from *)
OtherMode == IF last.mode = "selective" THEN "full" ELSE "selective"

OtherOutcome ==
    UpdateOutcome(before, last.region, lookback_df, validation_results, OtherMode, 0)

(* C9 as claimed: for a plan of exactly one value_change, the full and    *)
(* the selective apply leave the same rows under the date of the change.  *)
C9_ModesAgreeOnDate ==
    (UpdatedOk /\ SingleValueChange /\ ~OtherOutcome.raised) =>
        LET d == validation_results.changed_records[1].date
        IN  RowsOf(fund_data, last.region, d) = RowsOf(OtherOutcome.table, last.region, d)

(* C9 as amended: for a plan of exactly one value_change that both modes  *)
(* apply successfully, the changed row ends with the same value in every  *)
(* column the selective update writes.                                    *)
C9_ModesAgreeOnPatchedColumns ==
    (UpdatedOk /\ SingleValueChange /\ ~OtherOutcome.raised) =>
        LET c == validation_results.changed_records[1]
            key == <<c.date, last.region, c.fund_code>>
        IN  /\ \E t \in fund_data : Key(t) = key
            /\ \E u \in OtherOutcome.table : Key(u) = key
            /\ \A t \in fund_data : \A u \in OtherOutcome.table :
                  (Key(t) = key /\ Key(u) = key) =>
                      \A x \in {selective_column_mapping[e] :
                                   e \in DOMAIN selective_column_mapping} : t[x] = u[x]

C9_Witness ==
    /\ SelectiveOk /\ SingleValueChange /\ ~OtherOutcome.raised
    /\ fund_data # before
    /\ LET d == validation_results.changed_records[1].date
       IN  RowsOf(fund_data, last.region, d) # RowsOf(OtherOutcome.table, last.region, d)

(* C10: a selective patch of a Friday row is also written to the rows of  *)
(* the same region and fund on the following Saturday and Sunday.         *)
C10_WeekendRowsPatched ==
    SelectiveOk =>
        \A c \in Range(validation_results.changed_records) :
            (c.type = "value_change" /\ weekday(c.date) = 4) =>
                \A t \in fund_data : \A u \in fund_data :
                    (/\ Key(t) = <<c.date, last.region, c.fund_code>>
                     /\ u["region"] = last.region /\ u["fund_code"] = c.fund_code
                     /\ u["date"] \in {c.date + 1, c.date + 2})
                    => \A j \in 1..Len(c.changed_fields) :
                          u[c.changed_fields[j].field] = t[c.changed_fields[j].field]

(* The comparison of SpecCompare: the stored and the converted lookback   *)
(* value of share_class_assets, and what was reported.                     *)
Compared == last.op = "compare"

ComparedStored == (CHOOSE t \in fund_data : TRUE)["share_class_assets"]

ComparedLookback ==
    CompareLookbackValue(lookback_df[1]["Share Class Assets (dly/$mils)"])

Flagged == validation_results.changed_records # <<>>

FlaggedEntry == validation_results.changed_records[1].changed_fields[1]

(* C11: for a stored value a that is non-null and not zero (more than     *)
(* epsilon from zero) and a reference value b that is non-null and differs *)
(* from a by at least epsilon, the field is flagged if and only if        *)
(* |b - a| / |a| * 100 > threshold; exactly the threshold is not flagged.  *)
C11_StrictThreshold ==
    (/\ Compared
     /\ notna(ComparedStored) /\ notna(ComparedLookback)
     /\ Abs(ComparedStored.n) > Epsilon
     /\ Abs(ComparedLookback.n - ComparedStored.n) >= Epsilon)
    => (Flagged <=> Abs(ComparedLookback.n - ComparedStored.n) * 100
                       > change_threshold * Abs(ComparedStored.n))

C11_Witness ==
    /\ Compared /\ change_threshold = 5
    /\ ComparedStored = Num(100) /\ ComparedLookback = Num(105)
    /\ ~Flagged

(* C12: when exactly one of the stored and the reference value is null,   *)
(* the record is reported as changed whatever the threshold, without a     *)
(* percentage, and its descriptor is of kind null_mismatch.                *)
C12_NullMismatchKind ==
    (Compared /\ isna(ComparedStored) # isna(ComparedLookback)) =>
        /\ Flagged
        /\ ~FlaggedEntry.pct_change.present
        /\ validation_results.changed_records[1].type = "null_mismatch"

(* C13 as claimed: a stored value of zero (within epsilon) and a non-zero *)
(* reference value are always flagged, without a division.                 *)
C13_ZeroToNonZero ==
    (/\ Compared
     /\ notna(ComparedStored) /\ notna(ComparedLookback)
     /\ Abs(ComparedStored.n) <= Epsilon
     /\ ComparedLookback.n # 0)
    => (Flagged /\ ~FlaggedEntry.pct_change.present)

(* C13 as amended: a stored value of zero (within epsilon) and a reference *)
(* value that is more than epsilon from zero and at least epsilon from the *)
(* stored value are always flagged, without a division.                    *)
C13_ZeroToBeyondEpsilon ==
    (/\ Compared
     /\ notna(ComparedStored) /\ notna(ComparedLookback)
     /\ Abs(ComparedStored.n) <= Epsilon
     /\ Abs(ComparedLookback.n) > Epsilon
     /\ Abs(ComparedLookback.n - ComparedStored.n) >= Epsilon)
    => (Flagged /\ ~FlaggedEntry.pct_change.present)

C13_Witness ==
    /\ Compared /\ change_threshold = 10
    /\ ComparedStored = Num(0) /\ ComparedLookback = Num(3)
    /\ Flagged /\ ~FlaggedEntry.pct_change.present

(* C14: the plan never holds two change descriptors with the same         *)
(* (date, fund_code), even when several rows of a date carry the same     *)
(* fund code.                                                              *)
C14_OneDescriptorPerKey ==
    \A i, j \in 1..Len(validation_results.changed_records) :
        (/\ validation_results.changed_records[i].date =
              validation_results.changed_records[j].date
         /\ validation_results.changed_records[i].fund_code =
              validation_results.changed_records[j].fund_code)
        => i = j

(* The file's run has come to load_to_database and that call has ended *)
DailyLoadEnded ==
    /\ daily_pc \in {"loaded", "failed"}
    /\ raw_df # <<>>
    /\ Len(daily_df) >= Len(raw_df)

(* C15: N rows sharing the fund code '#MULTIVALUE' are renamed            *)
(* '#MULTIVALUE_1' to '#MULTIVALUE_N' in row order, all N are retained    *)
(* through transform_data and the load, and no two records of the date    *)
(* and region share a primary key.  Stated for a file whose rows all      *)
(* carry the data date: once its load has ended the store holds, for the  *)
(* date and region, one row per placeholder row of the file, under the    *)
(* code with that row's rank and with that row's asset value (N >= 2).    *)
C15_MultivalueRetained ==
    (/\ DailyLoadEnded
     /\ MultivalueRank(raw_df, Len(raw_df)) >= 2
     /\ \A i \in 1..Len(raw_df) : raw_df[i]["Date"] = daily_date)
    => \A i \in 1..Len(raw_df) :
          raw_df[i]["Fund Code"] = "#MULTIVALUE" =>
              /\ daily_df[i]["Fund Code"] =
                    "#MULTIVALUE_" \o ToString(MultivalueRank(raw_df, i))
              /\ \E t \in fund_data :
                    /\ Key(t) = <<daily_date, daily_region, daily_df[i]["Fund Code"]>>
                    /\ t["share_class_assets"] =
                          raw_df[i]["Share Class Assets (dly/$mils)"]

(* The date of the first row of a frame whose Date parses *)
FirstParsedDate(df) ==
    df[CHOOSE i \in 1..Len(df) :
          /\ df[i]["Date"] # BadDate
          /\ \A j \in 1..(i - 1) : df[j]["Date"] = BadDate]["Date"]

(* C16: for a dataset whose data date is a Friday process_dates returns   *)
(* the original rows, then a copy of every row dated the next day and a   *)
(* copy dated the day after, equal to the originals but for the date; for *)
(* any other data date it returns the input rows unchanged.               *)
C16_ProcessDates ==
    [][(daily_pc = "valid" /\ daily_pc' = "dated") =>
          daily_df' = IF weekday(FirstParsedDate(daily_df)) = 4
                      THEN ExpandWeekend(daily_df, FirstParsedDate(daily_df))
                      ELSE daily_df]_vars

(* C17: after any sequence of loads, carry-forwards and updates every     *)
(* numeric column of every fund_data row holds a number or NULL, never a  *)
(* string token or other text.                                            *)
C17_NumericColumnsTyped ==
    \A t \in fund_data : \A c \in RealColumns : t[c].k \in {"num", "null"}

(* acquire_lock has returned True to the process and the process has not *)
(* begun release_lock.                                                     *)
HoldsLock(p) == sched[p].pc = "run" /\ sched[p].lock_file # 0

(* The process is in the body of its entry point, which writes the store *)
WritesStore(p) == sched[p].pc = "run"

(* C18: under any interleaving of acquire_lock and release_lock by        *)
(* different scheduler processes at most one process at a time holds the   *)
(* lock.                                                                   *)
C18_MutualExclusion ==
    \A p, q \in Procs : (HoldsLock(p) /\ HoldsLock(q)) => p = q

(* C20: every entry point that writes the store, backfill_missing_dates   *)
(* and run_historical_load from the command line included, writes only    *)
(* while it holds the lock.                                                *)
C20_WritesUnderLock ==
    \A p \in Procs : WritesStore(p) => HoldsLock(p)

(* The start requests that arrived while no ETL was running *)
ArrivedAtIdle == {r \in Requests : api[r].pc # "none" /\ api[r].at_idle}

(* C19: at most one workflow is in the running set; of two or more start  *)
(* requests that arrived while no ETL was running, once all are answered  *)
(* (and no workflow has finished meanwhile), exactly one was answered 202 *)
(* and every other one 409; and a request checked while an accepted       *)
(* workflow was unfinished was answered 409.                              *)
C19_SingleSlot ==
    /\ Cardinality(running_etl_workflows) <= 1
    /\ (/\ Cardinality(ArrivedAtIdle) >= 2
        /\ \A r \in ArrivedAtIdle : api[r].pc = "answered"
        /\ \A q \in Requests : api[q].worker # "finished")
       => \E r \in ArrivedAtIdle :
             /\ api[r].status = 202
             /\ \A q \in ArrivedAtIdle \ {r} : api[q].status = 409
    /\ \A r \in Requests :
          (api[r].pc = "answered" /\ api[r].busy) => api[r].status = 409

(* C30: in every plan returned by validate_against_lookback,              *)
(* missing_dates_count is the number of entries of missing_dates,         *)
(* changed_records_count the number of entries of changed_records, and    *)
(* requires_update is true exactly when one of the two counts is above 0. *)
C30_SummaryCounts ==
    /\ validation_results.summary.missing_dates_count =
          Len(validation_results.missing_dates)
    /\ validation_results.summary.changed_records_count =
          Len(validation_results.changed_records)
    /\ validation_results.summary.requires_update <=>
          (\/ validation_results.summary.missing_dates_count > 0
           \/ validation_results.summary.changed_records_count > 0)

C30_Witness ==
    /\ last.op = "validate"
    /\ validation_results.summary.changed_records_count = 2
    /\ validation_results.changed_records[1].date =
          validation_results.changed_records[2].date
    /\ validation_results.summary.requires_update

(* The stored rows an UPDATE of the selective apply matched *)
PatchedRows == {t \in before : Key(t) \in ChangedKeys}

(* C25: a selective update_from_lookback returns a records_updated equal  *)
(* to the number of stored rows that were patched; a plan entry that      *)
(* patches no stored row is not counted.                                  *)
C25_RecordsUpdatedCount ==
    SelectiveOk => update_result.records_updated = Cardinality(PatchedRows)

(* load_to_database returned normally, having written its SUCCESS row *)
LoadedOk == last.op = "load" /\ ~last.raised /\ load_args.status = "SUCCESS"

(* The rows of the loaded frame as the table keeps them *)
LoadedRows ==
    {StoredRow(r) :
        r \in Range(transform_data(load_args.df, load_args.region, load_args.file_date))}

(* The dates load_to_database deletes before it inserts *)
LoadedDates ==
    IF weekday(load_args.file_date) = 4
    THEN {load_args.file_date, load_args.file_date + 1, load_args.file_date + 2}
    ELSE {load_args.file_date}

(* C22: load_to_database reports success (returns normally and logs       *)
(* SUCCESS with records_processed = n) only if all n rows of the dataset   *)
(* were stored.                                                            *)
C22_SuccessMeansStored ==
    LoadedOk =>
        /\ load_args.records_processed = Len(load_args.df)
        /\ Cardinality(StoredRows(fund_data, load_args.region, load_args.file_date))
              = Len(load_args.df)

(* C26: after load_to_database(df, region, date) succeeds the stored rows *)
(* of (region, date) are exactly the rows of df, and the rows of the other *)
(* region and of dates other than date and its weekend mirrors are as      *)
(* before.                                                                 *)
C26_LoadReplacesDate ==
    LoadedOk =>
        /\ StoredRows(fund_data, load_args.region, load_args.file_date) = LoadedRows
        /\ \A t \in fund_data \cup before :
              (t["region"] # load_args.region \/ t["date"] \notin LoadedDates)
              => (t \in fund_data <=> t \in before)

(* The null tokens in any letter case, among the texts of NumericCells *)
NullTokensAnyCase == NullTokens \cup {<<"n", "/", "a">>}

(* A numeric cell that is text, not a number once the thousands           *)
(* separators are removed, and not a null token                           *)
Unparsable(v) ==
    /\ v.k = "text"
    /\ ~IsNumericText(RemoveCommas(v.s))
    /\ RemoveCommas(v.s) \notin NullTokensAnyCase

(* C24: transform_data rejects a record with a numeric field whose text   *)
(* is neither numeric nor a null token: the record is left out of the     *)
(* output, it is not kept with that field set to null.                    *)
C24_UnparsableRejected ==
    daily_pc = "transformed" =>
        Len(daily_df) =
            Cardinality({i \in 1..Len(raw_df) :
                ~Unparsable(raw_df[i]["Share Class Assets (dly/$mils)"])})

(* Row i of the frame carries a fund code that another row carries too *)
DuplicatedFundCode(df, i) ==
    \E j \in 1..Len(df) : j # i /\ df[j]["Fund Code"] = df[i]["Fund Code"]

(* C23: a data-quality problem confined to individual rows of a daily     *)
(* file (here a fund code that occurs twice) excludes only those rows:    *)
(* the file is never refused as a whole while it holds a row without the  *)
(* problem, so the remaining rows go on to be loaded.                     *)
C23_OnlyBadRowsExcluded ==
    daily_pc = "rejected" =>
        \A i \in 1..Len(daily_df) : DuplicatedFundCode(daily_df, i)

RegionRows(table, region) == {t \in table : t["region"] = region}

(* The table after one region is validated and updated by itself, with    *)
(* nothing going wrong                                                    *)
ReconciledAlone(table, region, df, mode) ==
    LET alone(results) ==
            IF results.summary.requires_update
            THEN UpdateOutcome(table, region, df, results, mode, 0).table
            ELSE table
    IN  alone(ValidationOutcome(table, region, df).results)

C27_WorkflowLifecycle ==
    workflows.exists =>
        /\ workflows.status = "pending" => workflows.started_at = NULL
        /\ workflows.status = "running" => workflows.started_at # NULL
        /\ workflows.status \in {"completed", "failed"} => workflows.completed_at # NULL

(* Every update_workflow call has returned *)
AllReturned == \A t \in Threads : tracker.threads[t].pc = "idle"

(* C28: update_workflow calls made concurrently by several threads on one *)
(* tracker for one workflow are all applied: once the calls have          *)
(* returned, and the output lines they were given are no more than the    *)
(* limit, the stored output holds exactly those lines, none lost and none *)
(* twice.                                                                 *)
C28_ConcurrentLinesKept ==
    (AllReturned /\ Len(tracker.given) <= OutputLimit) =>
        /\ Len(workflows.output) = Len(tracker.given)
        /\ Range(workflows.output) = Range(tracker.given)

(* Two threads were each given a line, one had to wait for the lock, and  *)
(* both calls have returned.                                              *)
C28_Witness ==
    /\ AllReturned
    /\ tracker.contended
    /\ {Line(1, 1), Line(2, 1)} \subseteq Range(tracker.given)

(* C29: the stored output of a workflow never holds more than the limit   *)
(* of entries, and it holds the entries appended last, in the order they  *)
(* were appended.                                                         *)
C29_OutputKeepsLast ==
    /\ Len(workflows.output) =
           IF Len(tracker.given) <= OutputLimit THEN Len(tracker.given) ELSE OutputLimit
    /\ \A i \in 1..Len(workflows.output) :
           workflows.output[i] =
               tracker.given[Len(tracker.given) - Len(workflows.output) + i]

(* More lines were given than the limit and the oldest was dropped *)
C29_Witness ==
    /\ Len(tracker.given) > OutputLimit
    /\ Len(workflows.output) = OutputLimit
    /\ workflows.output[1] # tracker.given[1]

(* The spreadsheet column a table column is loaded from *)
ExcelColumnOf(f) == CHOOSE c \in DOMAIN column_mapping : column_mapping[c] = f

(* C31: every configured critical field that is a column of the store and *)
(* of the reference dataset takes part in the comparison: a difference    *)
(* beyond the threshold or a null mismatch in it produces a change        *)
(* descriptor naming the field, for any configured field and not only for *)
(* the default ones.                                                      *)
C31_ConfiguredFieldsCompared ==
    last.op = "compare" =>
        \A i \in 1..Len(configured_fields) :
            \A t \in fund_data :
                LET f == configured_fields[i]
                IN  (/\ f \in DOMAIN t
                     /\ ExcelColumnOf(f) \in DOMAIN lookback_df[1]
                     /\ FieldChanged(t[f], lookback_df[1][ExcelColumnOf(f)],
                                     change_threshold))
                    => \E j \in 1..Len(validation_results.changed_records) :
                          \E k \in 1..Len(validation_results.changed_records[j].changed_fields) :
                             validation_results.changed_records[j].changed_fields[k].field = f

(* Neither a Saturday or Sunday nor a holiday *)
BusinessDay(d) == weekday(d) \in 0..4 /\ d \notin calendar.us_holidays

(* C32: get_prior_business_day(d) terminates for every date and returns   *)
(* the latest date strictly before d that is a business day: the result   *)
(* is a business day, it lies before d, and no business day lies          *)
(* strictly between it and d.                                             *)
C32_PriorBusinessDay ==
    /\ <>(calendar.pc = "returned")
    /\ [](calendar.pc = "returned" =>
            /\ calendar.prior_date < calendar.date
            /\ BusinessDay(calendar.prior_date)
            /\ \A x \in (calendar.prior_date + 1)..(calendar.date - 1) : ~BusinessDay(x))

(* A call has returned after it skipped a holiday and a weekend *)
C32_Witness ==
    /\ calendar.pc = "returned"
    /\ calendar.date - calendar.prior_date > 3
    /\ \E x \in calendar.us_holidays : calendar.prior_date < x /\ x < calendar.date

(* The rows the store holds for a region under a date, the date aside *)
RowsUnder(region, date) ==
    {[t EXCEPT !["date"] = 0] : t \in StoredRows(fund_data, region, date)}

(* C33: after a full-mode update has written a Friday's rows for a        *)
(* region, the store holds for that region the same fund codes with the   *)
(* same values under the Friday, the Saturday and the Sunday.             *)
C33_FridayMirroredOnWeekend ==
    (last.op = "update" /\ last.mode = "full" /\ ~last.raised) =>
       \A i \in 1..Len(lookback_df) :
          LET d == lookback_df[i]["Date"]
          IN  weekday(d) = 4 =>
                 /\ RowsUnder(last.region, d + 1) = RowsUnder(last.region, d)
                 /\ RowsUnder(last.region, d + 2) = RowsUnder(last.region, d)

(* C34: every reservation of the ETL slot is eventually released: a       *)
(* workflow id that is in the running set is out of it again later.       *)
C34_ReservationReleased ==
    \A r \in Requests : (r \in running_etl_workflows) ~> (r \notin running_etl_workflows)

(* C35: for every raw value of a monitored numeric field the comparison, *)
(* the load and the selective patch coerce it to the same number or null: *)
(* against a store holding what the loader made of the value the          *)
(* comparison reports no change, and the patch binds that same value.     *)
C35_SameCoercion ==
    daily_pc = "transformed" =>
       \A i \in 1..Len(raw_df) :
          LET v == raw_df[i]["Share Class Assets (dly/$mils)"]
              x == daily_df[i]["share_class_assets"]
          IN  /\ CompareLookbackValue(v) = x
              /\ UpdateSingleRecordValue(v) = x
              /\ ~FieldChanged(RealAffinity(x), v, change_threshold)

(* C36: every run_daily_etl call that returned gave a dict with success   *)
(* True, also when FAILED rows were written for a region; and             *)
(* run_with_retry goes on to a further attempt only after a call that     *)
(* raised.                                                                *)
C36_SuccessOnEveryReturn ==
    /\ \A i \in 1..Len(retry.calls) :
          retry.calls[i].returned = "dict" => retry.calls[i].success
    /\ \A i \in 1..(Len(retry.calls) - 1) : retry.calls[i].returned = "raised"
    /\ retry.pc = "sleep" => retry.calls[Len(retry.calls)].returned = "raised"

C36_Witness ==
    /\ retry.pc = "returned"
    /\ Len(retry.calls) = 2
    /\ retry.calls[2].returned = "dict"
    /\ retry.calls[2].failed_rows # {}
    /\ retry.result

(* C37: run_with_retry returns; it has then made at most max_retries      *)
(* calls; it returns True exactly when its last call succeeded, no call   *)
(* before that one having succeeded; it returns False only after          *)
(* max_retries failed calls, having sent one error alert (none when       *)
(* max_retries is zero and no call was made).                             *)
C37_RetryBounded ==
    /\ <>(retry.pc = "returned")
    /\ [](Len(retry.calls) <= retry.max_retries)
    /\ [](retry.pc = "returned" =>
            /\ \A i \in 1..(Len(retry.calls) - 1) : retry.calls[i].returned = "raised"
            /\ retry.result <=>
                  (retry.calls # <<>> /\ retry.calls[Len(retry.calls)].returned = "dict")
            /\ ~retry.result =>
                  /\ Len(retry.calls) = retry.max_retries
                  /\ retry.error_alerts = IF retry.max_retries > 0 THEN 1 ELSE 0
            /\ retry.result => retry.error_alerts = 0)

C37_Witness ==
    /\ retry.pc = "returned"
    /\ ~retry.result
    /\ retry.max_retries = 3
    /\ Len(retry.calls) = 3
    /\ retry.error_alerts = 1

(* C38: backfill_missing_dates returns, and after a run it triggered for  *)
(* a date has completed successfully the store holds rows under that date *)
(* for every region the date was reported missing for.                    *)
C38_BackfilledDatesStored ==
    /\ <>(backfill.pc = "done")
    /\ [](\A region \in Regions :
             (/\ backfill.pc \in {"loop", "done"}
              /\ backfill.completed
              /\ backfill.date \in backfill.missing_dates[region])
             => StoredRows(fund_data, region, backfill.date) # {})

(* The dates before the target under which the region had rows *)
EarlierDates ==
    {t["date"] : t \in {u \in before : u["region"] = last.region /\
                                      u["date"] < load_args.file_date}}

LatestEarlierDate == CHOOSE d \in EarlierDates : \A e \in EarlierDates : e <= d

ChromeHolders == {p \in Downloaders : chrome.procs[p].pc \in {"locked", "holding"}}

(* C40: at most one downloader process at a time holds the Chrome driver  *)
(* lock.                                                                  *)
C40_OneChromeHolder == Cardinality(ChromeHolders) <= 1

====
